---- MODULE Spec2Model ----
(***************************************************************************)
(* Verification model of the russh-ssh core library:                       *)
(*   - the secure channel's receive path and its sliding replay window     *)
(*     (encryption/secure_channel.rs),                                     *)
(*   - the reconnection controller (connection/reconnection.rs),           *)
(*   - the connection state manager (connection/state.rs),                 *)
(*   - the LWW sync state of the virtual file system (vdfs/sync.rs).       *)
(* Each subsystem has its own specification; the variables of the other    *)
(* subsystems stay at their initial value under it.                        *)
(***************************************************************************)
EXTENDS Integers, Sequences, FiniteSets, TLC

VARIABLES
    \* SecureChannel (receiver side)
    replay_window,     \* ReplayWindow {highest_seen, bitmap}; bitmap = set of set bits
    accepted,          \* observer: counters for which decrypt has returned Ok
    onlyGenuine,       \* observer: every message presented so far was a peer's own, intact
    lastDecrypt        \* observer: the last decrypt call, its result and whether its
                       \*           counter had been accepted before the call

chanVars == <<replay_window, accepted, onlyGenuine, lastDecrypt>>

VARIABLES
    \* ReconnectionController and the task running reconnect()
    current_attempt,   \* AtomicU32
    max_attempts,      \* AtomicU32
    cancelled,         \* AtomicBool
    notified,          \* cancel_notify: "none" (no Notified future), "waiting", "woken"
    rpc,               \* where the reconnect() call stands
    strategy,          \* the call's arguments: strategy.max_attempts and the closure,
                       \*   which succeeds on its succeed_at-th invocation (0: never)
    attempt,           \* the loop variable of reconnect()
    rresult,           \* what reconnect() returned
    connects,          \* observer: invocations of the connect closure in this call
    cpc,               \* where a cancel_reconnection() call stands
    cancel_seen,       \* observer: "stored" once a cancel_reconnection() called during
                       \*   this reconnect() call has set the flag, "returned" once
                       \*   it has returned; "pending" if one called before this call
                       \*   was still running when the call began; "no" otherwise
    after_cancel       \* observer: sleeps and connect attempts begun after that

reconVars == <<current_attempt, max_attempts, cancelled, notified, rpc, strategy,
               attempt, rresult, connects, cpc, cancel_seen, after_cancel>>

VARIABLES
    \* StateManager, the tasks calling it and one subscriber
    sm_state,          \* RwLock<ConnectionState>
    events,            \* what the broadcast channel has carried: the sequence a
                       \*   subscriber that drops nothing receives
    tpc,               \* per task: "idle", or "send" between drop(state) and send()
    pending,           \* per task: the StateChangeEvent it is about to send
    lastCall           \* observer: the call that returned last and its result

smVars == <<sm_state, events, tpc, pending, lastCall>>

VARIABLES
  sync,        \* node id -> SyncState of that node
  now,         \* the wall clock that Utc::now() reads
  steps,       \* number of operations applied to the sync states so far
  lastSync     \* observer: the kind of the last operation on a sync state

syncVars == <<sync, now, steps, lastSync>>

VARIABLES
  buffer,      \* the AdaptiveBuffer
  lastBuf      \* observer: the last call on the buffer and what it returned

bufVars == <<buffer, lastBuf>>

VARIABLES
  send_counter,  \* the AtomicU64 send counter of the channel
  epc,           \* per task: "idle", or "sealing" between fetch_add and return
  taken,         \* per task: the counter its fetch_add returned
  issued         \* observer: the counters fetch_add returned, in order

encVars == <<send_counter, epc, taken, issued>>

VARIABLES
  bst,         \* per builder: "new", "sent" (Init created), "done", "failed"
  chan,        \* per builder: the SecureChannel it established, or NoChannel
  net,         \* the handshake messages sent so far
  wire,        \* the SecureMessages sent so far
  lastHs       \* observer: the last decrypt on an established channel

hsVars == <<bst, chan, net, wire, lastHs>>

VARIABLES
  backoff,     \* the ReconnectionStrategy whose delays are computed
  lastDelay    \* observer: the last delay_for_attempt call and what it returned

backoffVars == <<backoff, lastDelay>>

VARIABLES
  \* The broadcast channel of a StateManager, its publishers and subscribers;
  \* an event is known by its position in the sequence of events sent
  bc_sent,     \* how many events sender.send() has put into the channel
  bc_pc,       \* per task: "idle", or "send" between drop(state) and send()
  rx_next,     \* per subscriber: the position its receiver reads next
  rx_lost      \* observer, per subscriber: how many events its receiver skipped

bcVars == <<bc_sent, bc_pc, rx_next, rx_lost>>

VARIABLES
  cs,          \* the HashMap of a ChunkStore, as the set of the chunks it holds
  cs_pc,       \* per task: "idle", or "store" while a store() waits for the lock
  cs_arg,      \* per task: the chunk its store() was called with
  lastCs       \* observer: the last ChunkStore call that returned and its result

csVars == <<cs, cs_pc, cs_arg, lastCs>>

VARIABLES
  vfs_chunks,  \* the chunk store of a VirtualFs, as the set of chunks it holds
  vfs_files,   \* the files map of its sync state: path -> metadata or NoEntry
  vfs_written, \* observer: per path that holds a file, the bytes last written
  lastVfs      \* observer: the last VirtualFs call and its result

vfsVars == <<vfs_chunks, vfs_files, vfs_written, lastVfs>>

VARIABLES
  session,     \* a StreamSession: is_host, its room, the events sent on event_tx
  wall_ms,     \* the wall clock, chrono::Utc::now().timestamp_millis()
  lastStream   \* observer: the last StreamSession call and its result

streamVars == <<session, wall_ms, lastStream>>

VARIABLES
  mgr_pc,        \* "idle", or "running" while reconnect_with_strategy runs
  mgr_state,     \* the state held by the ConnectionManager's StateManager
  mgr_published, \* the new states broadcast since the call began
  mgr_before,    \* observer: the state when the call began
  mgr_result     \* observer: what the last call returned

mgrVars == <<mgr_pc, mgr_state, mgr_published, mgr_before, mgr_result>>

vars == <<chanVars, reconVars, smVars, syncVars, bufVars, encVars, hsVars, backoffVars, bcVars, csVars, vfsVars, streamVars, mgrVars>>

\* what the actions of one subsystem leave alone
exceptChan == <<reconVars, smVars, syncVars, bufVars, encVars, hsVars, backoffVars, bcVars, csVars, vfsVars, streamVars, mgrVars>>
exceptRecon == <<chanVars, smVars, syncVars, bufVars, encVars, hsVars, backoffVars, bcVars, csVars, vfsVars, streamVars, mgrVars>>
exceptSm == <<chanVars, reconVars, syncVars, bufVars, encVars, hsVars, backoffVars, bcVars, csVars, vfsVars, streamVars, mgrVars>>
exceptSync == <<chanVars, reconVars, smVars, bufVars, encVars, hsVars, backoffVars, bcVars, csVars, vfsVars, streamVars, mgrVars>>
exceptBuf == <<chanVars, reconVars, smVars, syncVars, encVars, hsVars, backoffVars, bcVars, csVars, vfsVars, streamVars, mgrVars>>
exceptEnc == <<chanVars, reconVars, smVars, syncVars, bufVars, hsVars, backoffVars, bcVars, csVars, vfsVars, streamVars, mgrVars>>
exceptHs == <<chanVars, reconVars, smVars, syncVars, bufVars, encVars, backoffVars, bcVars, csVars, vfsVars, streamVars, mgrVars>>
exceptBackoff == <<chanVars, reconVars, smVars, syncVars, bufVars, encVars, hsVars, bcVars, csVars, vfsVars, streamVars, mgrVars>>
exceptBc == <<chanVars, reconVars, smVars, syncVars, bufVars, encVars, hsVars, backoffVars, csVars, vfsVars, streamVars, mgrVars>>
exceptCs == <<chanVars, reconVars, smVars, syncVars, bufVars, encVars, hsVars, backoffVars, bcVars, vfsVars, streamVars, mgrVars>>
exceptVfs == <<chanVars, reconVars, smVars, syncVars, bufVars, encVars, hsVars, backoffVars, bcVars, csVars, streamVars, mgrVars>>
exceptStream == <<chanVars, reconVars, smVars, syncVars, bufVars, encVars, hsVars, backoffVars, bcVars, csVars, vfsVars, mgrVars>>
exceptMgr == <<chanVars, reconVars, smVars, syncVars, bufVars, encVars, hsVars, backoffVars, bcVars, csVars, vfsVars, streamVars>>

(***************************************************************************)
(* Secure channel: ReplayWindow and SecureChannel::decrypt                 *)
(***************************************************************************)

\* const REPLAY_WINDOW_SIZE: u64 = 64; the bitmap is a u64, so it has as many bits
REPLAY_WINDOW_SIZE == 64

\* The counters the environment presents lie at most MaxOff away from a multiple
\* of the window size, and are at most MaxCounter.
MaxOff == 1
MaxCounter == 65

CounterInputs ==
    {c \in 0..MaxCounter :
        \/ c % REPLAY_WINDOW_SIZE <= MaxOff
        \/ c % REPLAY_WINDOW_SIZE >= REPLAY_WINDOW_SIZE - MaxOff}

\* Identifiers (ContentHash of a public key) and AEAD keys seen by the receiver
Identifiers == {"peer", "local"}
PeerIdentifier == "peer"
Keys == {"k_peer_to_local", "k_local_to_peer"}
DecryptKey == "k_peer_to_local"

\* SecureMessage {encrypted, counter, sender}; the EncryptedMessage is represented
\* by the key that sealed it and by whether it reached the receiver unmodified
SecureMessage ==
    [sender : Identifiers, counter : CounterInputs, key : Keys, intact : BOOLEAN]

Genuine(m) == m.sender = PeerIdentifier /\ m.key = DecryptKey /\ m.intact

\* u64 << shift on the set of set bits: bits moved past bit 63 are lost
ShiftLeft(bitmap, shift) ==
    {i + shift : i \in bitmap} \cap (0..(REPLAY_WINDOW_SIZE - 1))

\* ReplayWindow::new
ReplayWindowNew == [highest_seen |-> 0, bitmap |-> {}]

\* check_and_mark that forgets to set the bit of an in-window counter
check_and_mark_NoMark(w, counter) ==
    IF counter > w.highest_seen
    THEN LET shift == counter - w.highest_seen IN
         [window |-> [highest_seen |-> counter,
                      bitmap |-> IF shift >= REPLAY_WINDOW_SIZE
                                 THEN {0}
                                 ELSE ShiftLeft(w.bitmap, shift) \cup {0}],
          ok |-> TRUE]
    ELSE IF w.highest_seen - counter >= REPLAY_WINDOW_SIZE
    THEN [window |-> w, ok |-> FALSE]
    ELSE [window |-> w, ok |-> (w.highest_seen - counter) \notin w.bitmap]

\* check_and_mark whose too-old test is off by one
check_and_mark_NarrowWindow(w, counter) ==
    IF counter > w.highest_seen
    THEN LET shift == counter - w.highest_seen IN
         [window |-> [highest_seen |-> counter,
                      bitmap |-> IF shift >= REPLAY_WINDOW_SIZE
                                 THEN {0}
                                 ELSE ShiftLeft(w.bitmap, shift) \cup {0}],
          ok |-> TRUE]
    ELSE IF w.highest_seen - counter >= REPLAY_WINDOW_SIZE - 1
    THEN [window |-> w, ok |-> FALSE]
    ELSE LET bit_index == w.highest_seen - counter IN
         IF bit_index \in w.bitmap
         THEN [window |-> w, ok |-> FALSE]
         ELSE [window |-> [w EXCEPT !.bitmap = @ \cup {bit_index}], ok |-> TRUE]

\* check_and_mark whose too-old test allows one counter more
check_and_mark_WideWindow(w, counter) ==
    IF counter > w.highest_seen
    THEN LET shift == counter - w.highest_seen IN
         [window |-> [highest_seen |-> counter,
                      bitmap |-> IF shift >= REPLAY_WINDOW_SIZE
                                 THEN {0}
                                 ELSE ShiftLeft(w.bitmap, shift) \cup {0}],
          ok |-> TRUE]
    ELSE IF w.highest_seen - counter > REPLAY_WINDOW_SIZE
    THEN [window |-> w, ok |-> FALSE]
    ELSE LET bit_index == w.highest_seen - counter IN
         IF bit_index \in w.bitmap
         THEN [window |-> w, ok |-> FALSE]
         ELSE [window |-> [w EXCEPT !.bitmap = @ \cup {bit_index}], ok |-> TRUE]

\* ReplayWindow::check_and_mark: the window after the call and the returned bool
check_and_mark(w, counter) ==
    IF counter > w.highest_seen
    THEN LET shift == counter - w.highest_seen IN
         [window |-> [highest_seen |-> counter,
                      bitmap |-> IF shift >= REPLAY_WINDOW_SIZE
                                 THEN {0}
                                 ELSE ShiftLeft(w.bitmap, shift) \cup {0}],
          ok |-> TRUE]
    ELSE IF w.highest_seen - counter >= REPLAY_WINDOW_SIZE
    THEN [window |-> w, ok |-> FALSE]
    ELSE LET bit_index == w.highest_seen - counter IN
         IF bit_index \in w.bitmap
         THEN [window |-> w, ok |-> FALSE]
         ELSE [window |-> [w EXCEPT !.bitmap = @ \cup {bit_index}], ok |-> TRUE]

\* cipher::decrypt under the channel's decrypt_key: AEAD open, then the hash check
cipher_decrypt(key, m) ==
    IF m.key = key /\ m.intact THEN "Ok" ELSE "Decryption"

\* decrypt that consults the replay window before it verifies the sender
decrypt_WindowFirst(w, m) ==
    LET r == check_and_mark(w, m.counter) IN
    IF m.sender # PeerIdentifier \/ ~r.ok
    THEN [window |-> r.window, result |-> "AuthenticationFailed"]
    ELSE [window |-> r.window, result |-> cipher_decrypt(DecryptKey, m)]

\* SecureChannel::decrypt: the window after the call and the result
decrypt(w, m) ==
    IF m.sender # PeerIdentifier
    THEN [window |-> w, result |-> "AuthenticationFailed"]
    ELSE LET r == check_and_mark(w, m.counter) IN
         IF ~r.ok
         THEN [window |-> r.window, result |-> "AuthenticationFailed"]
         ELSE [window |-> r.window, result |-> cipher_decrypt(DecryptKey, m)]

NoCall == [called |-> FALSE, sender |-> "none", counter |-> 0, genuine |-> FALSE,
           result |-> "None", replayed |-> FALSE]

ChanInit ==
    /\ replay_window = ReplayWindowNew
    /\ accepted = {}
    /\ onlyGenuine = TRUE
    /\ lastDecrypt = NoCall

\* One call of SecureChannel::decrypt on a message the transport delivers
Decrypt(m) ==
    LET r == decrypt(replay_window, m) IN
    /\ replay_window' = r.window
    /\ accepted' = IF r.result = "Ok" THEN accepted \cup {m.counter} ELSE accepted
    /\ onlyGenuine' = (onlyGenuine /\ Genuine(m))
    /\ lastDecrypt' = [called |-> TRUE, sender |-> m.sender, counter |-> m.counter,
                       genuine |-> Genuine(m),
                       result |-> r.result, replayed |-> m.counter \in accepted]
    /\ UNCHANGED exceptChan

ChanNext == \E m \in SecureMessage : Decrypt(m)

(***************************************************************************)
(* Secure channel: SecureChannel::encrypt called from several tasks, one   *)
(* step for the atomic fetch_add and one for the rest of the call          *)
(***************************************************************************)

\* Bound on the number of encrypt calls.
MaxSends == 4

EncryptTasks == {"e1", "e2", "e3"}

EncInit ==
  /\ send_counter = 0
  /\ epc = [t \in EncryptTasks |-> "idle"]
  /\ taken = [t \in EncryptTasks |-> 0]
  /\ issued = <<>>

\* A load of the counter in place of fetch_add: the counter is not advanced.
FetchAdd_Load(t) ==
  /\ epc[t] = "idle"
  /\ Len(issued) < MaxSends
  /\ taken' = [taken EXCEPT ![t] = send_counter]
  /\ UNCHANGED send_counter
  /\ issued' = Append(issued, send_counter)
  /\ epc' = [epc EXCEPT ![t] = "sealing"]
  /\ UNCHANGED exceptEnc

\* let counter = self.send_counter.fetch_add(1, Ordering::SeqCst); the u64
\* wraps after 2^64 calls, far beyond MaxSends.
FetchAdd(t) ==
  /\ epc[t] = "idle"
  /\ Len(issued) < MaxSends
  /\ taken' = [taken EXCEPT ![t] = send_counter]
  /\ send_counter' = send_counter + 1
  /\ issued' = Append(issued, send_counter)
  /\ epc' = [epc EXCEPT ![t] = "sealing"]
  /\ UNCHANGED exceptEnc

\* The rest of encrypt: seal the plaintext and return the SecureMessage that
\* carries the counter taken and the local identifier.
EncryptReturn(t) ==
  /\ epc[t] = "sealing"
  /\ epc' = [epc EXCEPT ![t] = "idle"]
  /\ UNCHANGED <<send_counter, taken, issued>>
  /\ UNCHANGED exceptEnc

EncNext ==
  \/ \E t \in EncryptTasks : FetchAdd(t)
  \/ \E t \in EncryptTasks : EncryptReturn(t)

(***************************************************************************)
(* Channel establishment: SecureChannelBuilder::create_init_message,       *)
(* process_init and process_response, and the channels they establish      *)
(***************************************************************************)

\* Bound on the number of SecureMessages sent.
MaxWire == 2

\* The builders, each with the key pair KeyPair::generate() gave it; the
\* initiators create an Init message, the responders answer one.
Initiators == {"a", "c"}
Responders == {"b", "d"}
Builders == Initiators \cup Responders

\* KeyPair::public_key of builder b's key pair.
PublicKey(b) == <<"public", b>>

\* hash_data of a public key.
HashData(public_key) == <<"hash", public_key>>

\* Identity::from_public_key
IdentityFromPublicKey(public_key) ==
  [public_key |-> public_key, identifier |-> HashData(public_key)]

\* KeyPair::identity
LocalIdentity(b) == IdentityFromPublicKey(PublicKey(b))

\* KeyPair::agree: X25519 of b's private key and the peer's public key; both
\* ends of a key agreement obtain the same secret.
agree(b, peer_public_key) == {b, peer_public_key[2]}

\* derive_keys that leaves the shared secret and the context out of the
\* derivation.
derive_keys_Fixed(shared_secret, context) ==
  [initiator_key |-> [secret |-> {}, context |-> <<>>, bytes |-> "0..32"],
   responder_key |-> [secret |-> {}, context |-> <<>>, bytes |-> "32..64"]]

\* SharedSecret::derive_keys: the two halves of the derived output.
derive_keys(shared_secret, context) ==
  [initiator_key |->
     [secret |-> shared_secret, context |-> context, bytes |-> "0..32"],
   responder_key |->
     [secret |-> shared_secret, context |-> context, bytes |-> "32..64"]]

\* SecureChannel::new that assigns the keys in the same order for both roles.
SecureChannelNew_SameOrder(role, keys, local_identity, peer_identity) ==
  [role |-> role,
   encrypt_key |-> keys.initiator_key,
   decrypt_key |-> keys.responder_key,
   local_identity |-> local_identity,
   peer_identity |-> peer_identity,
   send_counter |-> 0,
   replay_window |-> ReplayWindowNew]

\* SecureChannel::new
SecureChannelNew(role, keys, local_identity, peer_identity) ==
  [role |-> role,
   encrypt_key |-> IF role = "Initiator" THEN keys.initiator_key
                   ELSE keys.responder_key,
   decrypt_key |-> IF role = "Initiator" THEN keys.responder_key
                   ELSE keys.initiator_key,
   local_identity |-> local_identity,
   peer_identity |-> peer_identity,
   send_counter |-> 0,
   replay_window |-> ReplayWindowNew]

NoChannel ==
  [role |-> "none", encrypt_key |-> "none", decrypt_key |-> "none",
   local_identity |-> "none", peer_identity |-> "none", send_counter |-> 0,
   replay_window |-> ReplayWindowNew]

\* SecureChannelBuilder::create_init_message
create_init_message(b) ==
  [type |-> "Init", public_key |-> PublicKey(b), identity |-> LocalIdentity(b)]

\* The Response that process_init builds.
ResponseMessage(b) ==
  [type |-> "Response", public_key |-> PublicKey(b),
   identity |-> LocalIdentity(b)]

\* The channel process_init establishes from an Init message.
process_init(b, init) ==
  LET shared_secret == agree(b, init.public_key)
      context == <<init.identity.public_key, LocalIdentity(b).public_key>>
  IN  SecureChannelNew("Responder", derive_keys(shared_secret, context),
                       LocalIdentity(b), init.identity)

\* The channel process_response establishes from a Response message.
process_response(b, response) ==
  LET shared_secret == agree(b, response.public_key)
      context == <<LocalIdentity(b).public_key, response.identity.public_key>>
  IN  SecureChannelNew("Initiator", derive_keys(shared_secret, context),
                       LocalIdentity(b), response.identity)

\* The SecureMessage that encrypt returns on channel ch of builder b.
channel_encrypt(b, ch) ==
  [sender |-> ch.local_identity.identifier, counter |-> ch.send_counter,
   key |-> ch.encrypt_key, intact |-> TRUE, from |-> b]

\* SecureChannel::decrypt on channel ch: the window after the call and the
\* result.
channel_decrypt(ch, m) ==
  IF m.sender # ch.peer_identity.identifier
    THEN [window |-> ch.replay_window, result |-> "AuthenticationFailed"]
    ELSE LET r == check_and_mark(ch.replay_window, m.counter)
         IN  IF ~r.ok
               THEN [window |-> r.window, result |-> "AuthenticationFailed"]
               ELSE [window |-> r.window,
                     result |-> cipher_decrypt(ch.decrypt_key, m)]

HsInit ==
  /\ bst = [b \in Builders |-> "new"]
  /\ chan = [b \in Builders |-> NoChannel]
  /\ net = {}
  /\ wire = {}
  /\ lastHs = [on |-> "none", from |-> "none", result |-> "None"]

\* An initiator creates its Init message and sends it.
CreateInit(b) ==
  /\ b \in Initiators
  /\ bst[b] = "new"
  /\ bst' = [bst EXCEPT ![b] = "sent"]
  /\ net' = net \cup {create_init_message(b)}
  /\ UNCHANGED <<chan, wire, lastHs>>
  /\ UNCHANGED exceptHs

\* A responder processes a handshake message it received; the builder is
\* consumed, and a message that is not an Init establishes nothing.
ProcessInitOf(b, msg) ==
  /\ b \in Responders
  /\ bst[b] = "new"
  /\ msg \in net
  /\ IF msg.type = "Init"
       THEN /\ bst' = [bst EXCEPT ![b] = "done"]
            /\ chan' = [chan EXCEPT ![b] = process_init(b, msg)]
            /\ net' = net \cup {ResponseMessage(b)}
       ELSE /\ bst' = [bst EXCEPT ![b] = "failed"]
            /\ UNCHANGED <<chan, net>>
  /\ UNCHANGED <<wire, lastHs>>
  /\ UNCHANGED exceptHs

ProcessInit(b) == \E msg \in net : ProcessInitOf(b, msg)

\* An initiator processes a handshake message it received.
ProcessResponseOf(b, msg) ==
  /\ b \in Initiators
  /\ bst[b] = "sent"
  /\ msg \in net
  /\ IF msg.type = "Response"
       THEN /\ bst' = [bst EXCEPT ![b] = "done"]
            /\ chan' = [chan EXCEPT ![b] = process_response(b, msg)]
       ELSE /\ bst' = [bst EXCEPT ![b] = "failed"]
            /\ UNCHANGED chan
  /\ UNCHANGED <<net, wire, lastHs>>
  /\ UNCHANGED exceptHs

ProcessResponse(b) == \E msg \in net : ProcessResponseOf(b, msg)

\* SecureChannel::encrypt on an established channel; the message is sent.
SendSecure(b) ==
  /\ bst[b] = "done"
  /\ Cardinality(wire) < MaxWire
  /\ wire' = wire \cup {channel_encrypt(b, chan[b])}
  /\ chan' = [chan EXCEPT ![b].send_counter = @ + 1]
  /\ UNCHANGED <<bst, net, lastHs>>
  /\ UNCHANGED exceptHs

\* SecureChannel::decrypt on an established channel, of any message sent.
ReceiveSecureOf(b, m) ==
  /\ bst[b] = "done"
  /\ m \in wire
  /\ chan' = [chan EXCEPT ![b].replay_window = channel_decrypt(chan[b], m).window]
  /\ lastHs' = [on |-> b, from |-> m.from,
                result |-> channel_decrypt(chan[b], m).result]
  /\ UNCHANGED <<bst, net, wire>>
  /\ UNCHANGED exceptHs

ReceiveSecure(b) == \E m \in wire : ReceiveSecureOf(b, m)

\* The handshake messages a peer can send that no builder made. A
\* HandshakeMessage is deserialized from the wire, so its public_key and the
\* fields of its identity are whatever the peer wrote: here the key of the
\* peer "m" with the identity of builder "a" or "b", or with an identity
\* whose identifier is the hash of another key.
ForgedMessages ==
  {[type |-> t, public_key |-> PublicKey("m"), identity |-> id] :
     t \in {"Init", "Response"},
     id \in {LocalIdentity("a"), LocalIdentity("b"),
             [public_key |-> PublicKey("m"),
              identifier |-> HashData(PublicKey("a"))]}}

\* The peer "m" sends one handshake message of its own making.
SendForged(msg) ==
  /\ net \cap ForgedMessages = {}
  /\ net' = net \cup {msg}
  /\ UNCHANGED <<bst, chan, wire, lastHs>>
  /\ UNCHANGED exceptHs

\* the handshake with a peer that writes its own messages
HsForgedNext ==
  \/ \E b \in Builders : CreateInit(b)
  \/ \E msg \in ForgedMessages : SendForged(msg)
  \/ \E b \in Builders : ProcessInit(b)
  \/ \E b \in Builders : ProcessResponse(b)

HsNext ==
  \/ \E b \in Builders : CreateInit(b)
  \/ \E b \in Builders : ProcessInit(b)
  \/ \E b \in Builders : ProcessResponse(b)
  \/ \E b \in Builders : SendSecure(b)
  \/ \E b \in Builders : ReceiveSecure(b)

(***************************************************************************)
(* Reconnection controller: ReconnectionController::reconnect and          *)
(* cancel_reconnection, one step per atomic access or suspension point     *)
(***************************************************************************)

\* strategy.max_attempts of the calls made
MaxAttempts == 3

Strategies == [max_attempts : 0..MaxAttempts, succeed_at : 0..MaxAttempts]

\* ReconnectionController::new; no call is running
ReconInit ==
    /\ current_attempt = 0
    /\ max_attempts = 0
    /\ cancelled = FALSE
    /\ notified = "none"
    /\ rpc = "idle"
    /\ strategy = [max_attempts |-> 0, succeed_at |-> 0]
    /\ attempt = 0
    /\ rresult = "None"
    /\ connects = 0
    /\ cpc = "idle"
    /\ cancel_seen = "no"
    /\ after_cancel = 0

Running == rpc \notin {"idle", "done"}

\* ReconnectionStatus, the variants status() builds
StatusIdle == [kind |-> "Idle", attempt |-> 0, max_attempts |-> 0]
StatusInProgress(a, max) ==
    [kind |-> "InProgress", attempt |-> a, max_attempts |-> max]
StatusCancelled == [kind |-> "Cancelled", attempt |-> 0, max_attempts |-> 0]

\* ReconnectionController::is_reconnecting
is_reconnecting == current_attempt > 0

\* ReconnectionController::status
status ==
    IF cancelled
    THEN StatusCancelled
    ELSE IF current_attempt > 0
    THEN StatusInProgress(current_attempt, max_attempts)
    ELSE StatusIdle

\* reconnect() is called: reset() stores current_attempt = 0 first
ResetAttempt(st) ==
    /\ ~Running
    /\ strategy' = st
    /\ current_attempt' = 0
    /\ rpc' = "reset_max"
    /\ attempt' = 0
    /\ rresult' = "None"
    /\ connects' = 0
    /\ cancel_seen' = IF cpc = "notify" THEN "pending" ELSE "no"
    /\ after_cancel' = 0
    /\ UNCHANGED exceptRecon
    /\ UNCHANGED <<max_attempts, cancelled, notified, cpc>>

\* reset(): max_attempts.store(0)
ResetMax ==
    /\ rpc = "reset_max"
    /\ max_attempts' = 0
    /\ rpc' = "reset_cancelled"
    /\ UNCHANGED exceptRecon
    /\ UNCHANGED <<current_attempt, cancelled, notified, strategy, attempt, rresult,
                   connects, cpc, cancel_seen, after_cancel>>

\* reset(): cancelled.store(false)
ResetCancelled ==
    /\ rpc = "reset_cancelled"
    /\ cancelled' = FALSE
    /\ rpc' = "store_max"
    /\ UNCHANGED exceptRecon
    /\ UNCHANGED <<current_attempt, max_attempts, notified, strategy, attempt, rresult,
                   connects, cpc, cancel_seen, after_cancel>>

\* max_attempts.store(strategy.max_attempts)
StoreMax ==
    /\ rpc = "store_max"
    /\ max_attempts' = strategy.max_attempts
    /\ rpc' = "loop"
    /\ UNCHANGED exceptRecon
    /\ UNCHANGED <<current_attempt, cancelled, notified, strategy, attempt, rresult,
                   connects, cpc, cancel_seen, after_cancel>>

\* the loop of reconnect() running one attempt too many
LoopHead_OffByOne ==
    /\ rpc = "loop"
    /\ IF attempt > strategy.max_attempts
       THEN /\ rpc' = "exhausted"
            /\ UNCHANGED rresult
       ELSE IF cancelled
       THEN /\ rpc' = "done"
            /\ rresult' = "Cancelled"
       ELSE /\ rpc' = "store_attempt"
            /\ UNCHANGED rresult
    /\ UNCHANGED exceptRecon
    /\ UNCHANGED <<current_attempt, max_attempts, cancelled, notified, strategy, attempt,
                   connects, cpc, cancel_seen, after_cancel>>

\* for attempt in 0..max_attempts: the loop ends, or cancelled is loaded
LoopHead ==
    /\ rpc = "loop"
    /\ IF attempt >= strategy.max_attempts
       THEN /\ rpc' = "exhausted"
            /\ UNCHANGED rresult
       ELSE IF cancelled
       THEN /\ rpc' = "done"
            /\ rresult' = "Cancelled"
       ELSE /\ rpc' = "store_attempt"
            /\ UNCHANGED rresult
    /\ UNCHANGED exceptRecon
    /\ UNCHANGED <<current_attempt, max_attempts, cancelled, notified, strategy, attempt,
                   connects, cpc, cancel_seen, after_cancel>>

\* current_attempt.store(attempt + 1)
StoreAttempt ==
    /\ rpc = "store_attempt"
    /\ current_attempt' = attempt + 1
    /\ rpc' = IF attempt > 0 THEN "select" ELSE "connect"
    /\ UNCHANGED exceptRecon
    /\ UNCHANGED <<max_attempts, cancelled, notified, strategy, attempt, rresult,
                   connects, cpc, cancel_seen, after_cancel>>

\* tokio::select! creates sleep(delay) and cancel_notify.notified(): the backoff
\* sleep begins, and from here on notify_waiters() wakes the Notified future
BeginSleep ==
    /\ rpc = "select"
    /\ notified' = "waiting"
    /\ rpc' = "sleeping"
    /\ after_cancel' = IF cancel_seen = "returned" THEN after_cancel + 1 ELSE after_cancel
    /\ UNCHANGED exceptRecon
    /\ UNCHANGED <<current_attempt, max_attempts, cancelled, strategy, attempt, rresult,
                   connects, cpc, cancel_seen>>

\* the sleep branch of the select completes
SleepElapsed ==
    /\ rpc = "sleeping"
    /\ notified' = "none"
    /\ rpc' = "connect"
    /\ UNCHANGED exceptRecon
    /\ UNCHANGED <<current_attempt, max_attempts, cancelled, strategy, attempt, rresult,
                   connects, cpc, cancel_seen, after_cancel>>

\* the notified branch of the select completes: return Err(Cancelled)
SleepCancelled ==
    /\ rpc = "sleeping"
    /\ notified = "woken"
    /\ notified' = "none"
    /\ rpc' = "done"
    /\ rresult' = "Cancelled"
    /\ UNCHANGED exceptRecon
    /\ UNCHANGED <<current_attempt, max_attempts, cancelled, strategy, attempt,
                   connects, cpc, cancel_seen, after_cancel>>

\* connect() is invoked: a connect attempt begins
ConnectCall ==
    /\ rpc = "connect"
    /\ connects' = connects + 1
    /\ rpc' = "connecting"
    /\ after_cancel' = IF cancel_seen = "returned" THEN after_cancel + 1 ELSE after_cancel
    /\ UNCHANGED exceptRecon
    /\ UNCHANGED <<current_attempt, max_attempts, cancelled, notified, strategy, attempt,
                   rresult, cpc, cancel_seen>>

\* connect().await resolves: Ok stores current_attempt = 0 and returns, Err loops
ConnectReturn ==
    /\ rpc = "connecting"
    /\ IF connects = strategy.succeed_at
       THEN /\ current_attempt' = 0
            /\ rpc' = "done"
            /\ rresult' = "Ok"
            /\ UNCHANGED attempt
       ELSE /\ attempt' = attempt + 1
            /\ rpc' = "loop"
            /\ UNCHANGED <<current_attempt, rresult>>
    /\ UNCHANGED exceptRecon
    /\ UNCHANGED <<max_attempts, cancelled, notified, strategy, connects, cpc,
                   cancel_seen, after_cancel>>

\* after the loop: current_attempt.store(0), return Err(AttemptsExhausted)
Exhausted ==
    /\ rpc = "exhausted"
    /\ current_attempt' = 0
    /\ rpc' = "done"
    /\ rresult' = "AttemptsExhausted"
    /\ UNCHANGED exceptRecon
    /\ UNCHANGED <<max_attempts, cancelled, notified, strategy, attempt, connects, cpc,
                   cancel_seen, after_cancel>>

\* cancel_reconnection(): cancelled.store(true)
CancelStore ==
    /\ cpc = "idle"
    /\ cancelled' = TRUE
    /\ cpc' = "notify"
    /\ cancel_seen' = IF Running /\ cancel_seen \in {"no", "pending"}
                       THEN "stored" ELSE cancel_seen
    /\ UNCHANGED exceptRecon
    /\ UNCHANGED <<current_attempt, max_attempts, notified, rpc, strategy, attempt,
                   rresult, connects, after_cancel>>

\* cancel_reconnection(): cancel_notify.notify_waiters() wakes the Notified futures
\* that exist now and stores no permit; then the call returns
CancelNotify ==
    /\ cpc = "notify"
    /\ notified' = IF notified = "waiting" THEN "woken" ELSE notified
    /\ cpc' = "idle"
    /\ cancel_seen' = IF Running /\ cancel_seen = "stored" THEN "returned" ELSE cancel_seen
    /\ UNCHANGED exceptRecon
    /\ UNCHANGED <<current_attempt, max_attempts, cancelled, rpc, strategy, attempt,
                   rresult, connects, after_cancel>>

ReconNext ==
    \/ \E st \in Strategies : ResetAttempt(st)
    \/ ResetMax
    \/ ResetCancelled
    \/ StoreMax
    \/ LoopHead
    \/ StoreAttempt
    \/ BeginSleep
    \/ SleepElapsed
    \/ SleepCancelled
    \/ ConnectCall
    \/ ConnectReturn
    \/ Exhausted
    \/ CancelStore
    \/ CancelNotify

(***************************************************************************)
(* Connection state manager: ConnectionState::can_transition_to,           *)
(* StateManager::set_state and StateManager::try_transition                *)
(***************************************************************************)

\* Reconnecting{attempt} takes attempt in 1..MaxAttemptNo, Failed{reason} takes
\* one of NumReasons reasons; at most MaxEvents events are broadcast
MaxAttemptNo == 2
NumReasons == 2
MaxEvents == 2

\* the tasks that call the manager
Tasks == {"t1", "t2"}

Disconnected == [kind |-> "Disconnected", arg |-> 0]
Connecting == [kind |-> "Connecting", arg |-> 0]
Connected == [kind |-> "Connected", arg |-> 0]
Reconnecting(n) == [kind |-> "Reconnecting", arg |-> n]
Failed(r) == [kind |-> "Failed", arg |-> r]

ConnectionState ==
    {Disconnected, Connecting, Connected}
        \cup {Reconnecting(n) : n \in 1..MaxAttemptNo}
        \cup {Failed(r) : r \in 1..NumReasons}

\* can_transition_to with an arm too many: Connected may go to Connecting
can_transition_to_Lax(self, new_state) ==
    LET from == self.kind
        to == new_state.kind
    IN  \/ from = "Disconnected" /\ to \in {"Connecting", "Failed"}
        \/ from = "Connecting" /\ to \in {"Connected", "Failed", "Disconnected"}
        \/ from = "Connected" /\ to \in {"Disconnected", "Failed", "Reconnecting"}
        \/ from = "Connected" /\ to = "Connecting"
        \/ from = "Reconnecting"
              /\ to \in {"Connected", "Failed", "Reconnecting", "Disconnected"}
        \/ from = "Failed" /\ to \in {"Connecting", "Disconnected"}
        \/ from = to

\* can_transition_to with an arm missing: Connected may not go to Reconnecting
can_transition_to_Strict(self, new_state) ==
    LET from == self.kind
        to == new_state.kind
    IN  \/ from = "Disconnected" /\ to \in {"Connecting", "Failed"}
        \/ from = "Connecting" /\ to \in {"Connected", "Failed", "Disconnected"}
        \/ from = "Connected" /\ to \in {"Disconnected", "Failed"}
        \/ from = "Reconnecting"
              /\ to \in {"Connected", "Failed", "Reconnecting", "Disconnected"}
        \/ from = "Failed" /\ to \in {"Connecting", "Disconnected"}
        \/ from = to

\* ConnectionState::can_transition_to, arm by arm
can_transition_to(self, new_state) ==
    LET from == self.kind
        to == new_state.kind
    IN  \/ from = "Disconnected" /\ to = "Connecting"
        \/ from = "Disconnected" /\ to = "Failed"
        \/ from = "Connecting" /\ to = "Connected"
        \/ from = "Connecting" /\ to = "Failed"
        \/ from = "Connecting" /\ to = "Disconnected"
        \/ from = "Connected" /\ to = "Disconnected"
        \/ from = "Connected" /\ to = "Failed"
        \/ from = "Connected" /\ to = "Reconnecting"
        \/ from = "Reconnecting" /\ to = "Connected"
        \/ from = "Reconnecting" /\ to = "Failed"
        \/ from = "Reconnecting" /\ to = "Reconnecting"
        \/ from = "Reconnecting" /\ to = "Disconnected"
        \/ from = "Failed" /\ to = "Connecting"
        \/ from = "Failed" /\ to = "Disconnected"
        \/ from = to

StateChangeEvent(old, new) == [old_state |-> old, new_state |-> new]

NoEvent == StateChangeEvent(Disconnected, Disconnected)

Returned(op, from, to, result) ==
    [op |-> op, from |-> from, to |-> to, result |-> result]

\* StateManager::new, with one subscriber and every task outside a call
SmInit ==
    /\ sm_state = Disconnected
    /\ events = <<>>
    /\ tpc = [t \in Tasks |-> "idle"]
    /\ pending = [t \in Tasks |-> NoEvent]
    /\ lastCall = Returned("none", Disconnected, Disconnected, "None")

\* set_state without the equality test: it replaces the state and sends an
\* event whatever the current state is
SetState_AlwaysReplace(t, new_state) ==
    /\ tpc[t] = "idle"
    /\ Len(events) + Cardinality({u \in Tasks : tpc[u] # "idle"}) < MaxEvents
    /\ sm_state' = new_state
    /\ pending' = [pending EXCEPT ![t] = StateChangeEvent(sm_state, new_state)]
    /\ tpc' = [tpc EXCEPT ![t] = "send_set"]
    /\ UNCHANGED lastCall
    /\ UNCHANGED events
    /\ UNCHANGED exceptSm

\* set_state up to drop(state): under the write lock, return false on an equal
\* state, else replace the state and go on to send
SetState(t, new_state) ==
    /\ tpc[t] = "idle"
    /\ IF sm_state = new_state
       THEN /\ lastCall' = Returned("set_state", sm_state, new_state, "false")
            /\ UNCHANGED <<sm_state, tpc, pending>>
       ELSE /\ Len(events) + Cardinality({u \in Tasks : tpc[u] # "idle"}) < MaxEvents
            /\ sm_state' = new_state
            /\ pending' = [pending EXCEPT ![t] = StateChangeEvent(sm_state, new_state)]
            /\ tpc' = [tpc EXCEPT ![t] = "send_set"]
            /\ UNCHANGED lastCall
    /\ UNCHANGED events
    /\ UNCHANGED exceptSm

\* try_transition up to drop(state): under the write lock, Ok(false) on an equal
\* state, Err(InvalidTransition) on an invalid one, else replace and go on to send
TryTransition(t, new_state) ==
    /\ tpc[t] = "idle"
    /\ IF sm_state = new_state
       THEN /\ lastCall' = Returned("try_transition", sm_state, new_state, "Ok(false)")
            /\ UNCHANGED <<sm_state, tpc, pending>>
       ELSE IF ~can_transition_to(sm_state, new_state)
       THEN /\ lastCall' = Returned("try_transition", sm_state, new_state,
                                    "Err(InvalidTransition)")
            /\ UNCHANGED <<sm_state, tpc, pending>>
       ELSE /\ Len(events) + Cardinality({u \in Tasks : tpc[u] # "idle"}) < MaxEvents
            /\ sm_state' = new_state
            /\ pending' = [pending EXCEPT ![t] = StateChangeEvent(sm_state, new_state)]
            /\ tpc' = [tpc EXCEPT ![t] = "send_try"]
            /\ UNCHANGED lastCall
    /\ UNCHANGED events
    /\ UNCHANGED exceptSm

\* the rest of set_state and try_transition: sender.send(event), then return
\* true or Ok(true)
Send(t) ==
    /\ tpc[t] # "idle"
    /\ events' = Append(events, pending[t])
    /\ lastCall' = IF tpc[t] = "send_set"
                   THEN Returned("set_state", pending[t].old_state,
                                 pending[t].new_state, "true")
                   ELSE Returned("try_transition", pending[t].old_state,
                                 pending[t].new_state, "Ok(true)")
    /\ tpc' = [tpc EXCEPT ![t] = "idle"]
    /\ pending' = [pending EXCEPT ![t] = NoEvent]
    /\ UNCHANGED sm_state
    /\ UNCHANGED exceptSm

SmNext ==
    \/ \E t \in Tasks, new_state \in ConnectionState : SetState(t, new_state)
    \/ \E t \in Tasks, new_state \in ConnectionState : TryTransition(t, new_state)
    \/ \E t \in Tasks : Send(t)

(***************************************************************************)
(* Sync state of the virtual file system: SyncState::apply_local,          *)
(* apply_remote, apply_operation and merge                                 *)
(***************************************************************************)

\* Bounds of the sync model.
MaxVersion == 2
MaxTime == 2
MaxSteps == 1

Nodes == {"n1", "n2"}

Paths == {"p1", "p2"}

\* The content (size, content_hash, chunks) of the files a node writes.
Content(node_id) ==
  CASE node_id = "n1" -> "h1"
    [] node_id = "n2" -> "h2"
    [] OTHER -> "h3"

Contents == {"h1", "h2", "h3"}

\* The value of files.get(path) for a path with no entry (None).
NoFile == [path |-> "none", version |-> 0, modified |-> 0, content |-> "none"]

\* FileMetadata: the fields merge and apply_operation read (version,
\* modified), the path, and `content` for every other field (size,
\* content_hash, chunks, permissions, ...).
FileMetadata ==
  [path : Paths, version : 1..MaxVersion, modified : 1..MaxTime,
   content : Contents]

Create(path, metadata) ==
  [type |-> "Create", path |-> path, metadata |-> metadata, to |-> "none"]

Update(path, metadata) ==
  [type |-> "Update", path |-> path, metadata |-> metadata, to |-> "none"]

Delete(path) ==
  [type |-> "Delete", path |-> path, metadata |-> NoFile, to |-> "none"]

Move(from, to) ==
  [type |-> "Move", path |-> from, metadata |-> NoFile, to |-> to]

\* The operations a caller hands to apply_local; the metadata's path is the
\* operation's path, as the engine and the virtual file system build it.
FileOperation ==
  {Create(m.path, m) : m \in FileMetadata}
    \cup {Update(m.path, m) : m \in FileMetadata}
    \cup {Delete(p) : p \in Paths}
    \cup {Move(p, q) : <<p, q>> \in {pq \in Paths \X Paths : pq[1] # pq[2]}}

\* The operations node `node_id` applies locally when the wall clock reads
\* `time`: it writes its own content to "p1", with metadata built at that
\* time (FileMetadata::new_file), and deletes and renames any path.
IsLocalOperation(op, node_id, time) ==
  op.type \in {"Create", "Update"} =>
    /\ op.path = "p1"
    /\ op.metadata.content = Content(node_id)
    /\ op.metadata.modified = time

\* TimestampedOp::new; `timestamp` is the reading of Utc::now().
TimestampedOp(op, node_id, clock, timestamp) ==
  [op |-> op, timestamp |-> timestamp, node_id |-> node_id, clock |-> clock]

\* SyncState::new
SyncStateNew(node_id) ==
  [files |-> [p \in Paths |-> NoFile],
   operations |-> <<>>,
   clock |-> 0,
   node_id |-> node_id,
   status |-> [p \in Paths |-> "None"]]

\* SyncState::apply_operation
apply_operation(self, top) ==
  LET op == top.op
      existing == self.files[op.path]
  IN  CASE op.type = "Create" ->
             [self EXCEPT !.files[op.path] = op.metadata,
                          !.status[op.path] = "Synced"]
        [] op.type = "Update" ->
             IF existing # NoFile
               THEN IF \/ op.metadata.version > existing.version
                       \/ /\ op.metadata.version = existing.version
                          /\ top.timestamp > existing.modified
                      THEN [self EXCEPT !.files[op.path] = op.metadata,
                                        !.status[op.path] = "Synced"]
                      ELSE [self EXCEPT !.status[op.path] = "Synced"]
               ELSE [self EXCEPT !.files[op.path] = op.metadata,
                                 !.status[op.path] = "Synced"]
        [] op.type = "Delete" ->
             [self EXCEPT !.files[op.path] = NoFile,
                          !.status[op.path] = "None"]
        [] op.type = "Move" ->
             IF existing # NoFile
               THEN [self EXCEPT
                       !.files = [p \in Paths |->
                                    IF p = op.to
                                      THEN [existing EXCEPT !.path = op.to]
                                      ELSE IF p = op.path THEN NoFile
                                      ELSE self.files[p]],
                       !.status = [p \in Paths |->
                                     IF p = op.to THEN "Synced"
                                     ELSE IF p = op.path THEN "None"
                                     ELSE self.status[p]]]
               ELSE self

\* The greatest value of the u64 clock, 2^64 - 1. The integers of the model
\* checker end at 2^31 - 1, so the model gives the clock 30 bits: the clock
\* arithmetic of the sync state uses only that this is the greatest clock and
\* that adding one to it overflows.
U64_MAX == 1073741823

\* `+ 1` on the u64 clock as a build without overflow checks computes it (the
\* release profile): the sum wraps to 0.
WrappingInc(c) == IF c = U64_MAX THEN 0 ELSE c + 1

\* SyncState::apply_local
apply_local(self, op, timestamp) ==
  LET clock == WrappingInc(self.clock)
      timestamped == TimestampedOp(op, self.node_id, clock, timestamp)
      applied == apply_operation([self EXCEPT !.clock = clock], timestamped)
  IN  [applied EXCEPT !.operations = Append(@, timestamped)]

\* SyncState::apply_remote
apply_remote(self, top) ==
  LET clock == WrappingInc(IF self.clock > top.clock THEN self.clock ELSE top.clock)
      applied == apply_operation([self EXCEPT !.clock = clock], top)
  IN  [applied EXCEPT !.operations = Append(@, top)]

\* The comparison of the sort at the end of merge: clock, then timestamp.
OpLessEq(a, b) ==
  \/ a.clock < b.clock
  \/ a.clock = b.clock /\ a.timestamp <= b.timestamp

\* Vec::sort_by, a stable sort.
RECURSIVE SortOps(_)
SortOps(ops) ==
  IF ops = <<>>
    THEN <<>>
    ELSE LET sorted == SortOps(SubSeq(ops, 1, Len(ops) - 1))
             x == ops[Len(ops)]
             k == Cardinality({i \in 1..Len(sorted) : OpLessEq(sorted[i], x)})
         IN  SubSeq(sorted, 1, k) \o <<x>> \o SubSeq(sorted, k + 1, Len(sorted))

\* The loop of merge over other.operations: push the ones with no entry of
\* the same timestamp and node_id in self.operations.
RECURSIVE MergeOps(_, _)
MergeOps(mine, theirs) ==
  IF theirs = <<>>
    THEN mine
    ELSE LET op == Head(theirs)
             exists == \E i \in 1..Len(mine) :
                         /\ mine[i].timestamp = op.timestamp
                         /\ mine[i].node_id = op.node_id
         IN  MergeOps(IF exists THEN mine ELSE Append(mine, op), Tail(theirs))

\* The loop of merge over other.files with the version of an entry that both
\* states hold bumped, as a write does.
MergeFiles_TouchOnConflict(self_files, other_files) ==
  [p \in Paths |->
     LET self_meta == self_files[p]
         other_meta == other_files[p]
     IN  IF other_meta = NoFile THEN self_meta
         ELSE IF self_meta = NoFile THEN other_meta
         ELSE IF \/ other_meta.version > self_meta.version
                 \/ /\ other_meta.version = self_meta.version
                    /\ other_meta.modified > self_meta.modified
                THEN [other_meta EXCEPT !.version = @ + 1]
                ELSE [self_meta EXCEPT !.version = @ + 1]]

\* The loop of merge over other.files taking the other entry when its version
\* or its modification time is greater, without requiring equal versions for
\* the second test.
MergeFiles_EitherNewer(self_files, other_files) ==
  [p \in Paths |->
     LET self_meta == self_files[p]
         other_meta == other_files[p]
     IN  IF other_meta = NoFile THEN self_meta
         ELSE IF self_meta = NoFile THEN other_meta
         ELSE IF \/ other_meta.version > self_meta.version
                 \/ other_meta.modified > self_meta.modified
                THEN other_meta
                ELSE self_meta]

\* The loop of merge over other.files that never replaces an entry self holds.
MergeFiles_KeepSelf(self_files, other_files) ==
  [p \in Paths |->
     LET self_meta == self_files[p]
         other_meta == other_files[p]
     IN  IF other_meta = NoFile THEN self_meta
         ELSE IF self_meta = NoFile THEN other_meta
         ELSE self_meta]

\* The loop of merge over other.files without the insertion of the entries
\* self lacks.
MergeFiles_NoInsert(self_files, other_files) ==
  [p \in Paths |->
     LET self_meta == self_files[p]
         other_meta == other_files[p]
     IN  IF other_meta = NoFile THEN self_meta
         ELSE IF self_meta = NoFile THEN NoFile
         ELSE IF \/ other_meta.version > self_meta.version
                 \/ /\ other_meta.version = self_meta.version
                    /\ other_meta.modified > self_meta.modified
                THEN other_meta
                ELSE self_meta]

\* The loop of merge over other.files: an entry of `other` replaces the entry
\* of `self` when self has none, or when its version is greater, or equal
\* with a greater modification time.
MergeFiles(self_files, other_files) ==
  [p \in Paths |->
     LET self_meta == self_files[p]
         other_meta == other_files[p]
     IN  IF other_meta = NoFile THEN self_meta
         ELSE IF self_meta = NoFile THEN other_meta
         ELSE IF \/ other_meta.version > self_meta.version
                 \/ /\ other_meta.version = self_meta.version
                    /\ other_meta.modified > self_meta.modified
                THEN other_meta
                ELSE self_meta]

\* SyncState::merge
merge(self, other) ==
  [self EXCEPT
     !.clock = WrappingInc(IF self.clock > other.clock THEN self.clock
                                                        ELSE other.clock),
     !.files = MergeFiles(self.files, other.files),
     !.operations = SortOps(MergeOps(self.operations, other.operations))]

\* SyncState::new of every node; nothing has been applied.
SyncInit ==
  /\ sync = [n \in Nodes |-> SyncStateNew(n)]
  /\ now = 1
  /\ steps = 0
  /\ lastSync = "none"

\* The states a node is in after SyncState::new and at most one local
\* Create, written no later than `time`.
ArbSyncStates(node_id, time) ==
  {SyncStateNew(node_id)}
    \cup {apply_local(SyncStateNew(node_id), Create(m.path, m), m.modified) :
            m \in {x \in FileMetadata : /\ x.path = "p1"
                                        /\ x.content = Content(node_id)
                                        /\ x.modified <= time}}

\* The nodes have each written at most one file before the run starts.
SyncInputs ==
  /\ now \in 1..MaxTime
  /\ \E s1 \in ArbSyncStates("n1", now), s2 \in ArbSyncStates("n2", now) :
       sync = [n \in Nodes |-> IF n = "n1" THEN s1 ELSE s2]
  /\ steps = 0
  /\ lastSync = "none"

\* The wall clock that Utc::now() reads advances.
Tick ==
  /\ now < MaxTime
  /\ now' = now + 1
  /\ UNCHANGED <<sync, steps, lastSync>>
  /\ UNCHANGED exceptSync

\* Node n applies a local operation.
ApplyLocal(n, op) ==
  /\ IsLocalOperation(op, n, now)
  /\ steps < MaxSteps
  /\ steps' = steps + 1
  /\ sync' = [sync EXCEPT ![n] = apply_local(sync[n], op, now)]
  /\ lastSync' = "apply_local"
  /\ UNCHANGED now
  /\ UNCHANGED exceptSync

\* Node n applies an operation received from node m. The TimestampedOp is
\* deserialized from the message, so its clock is any u64: the one node m
\* gave the operation, or u64::MAX. When the addition in apply_remote
\* overflows, a build with overflow checks panics before it assigns the
\* clock and a build without them stores the wrapped sum.
ApplyRemote(n, m) ==
  /\ n # m
  /\ steps < MaxSteps
  /\ steps' = steps + 1
  /\ \E i \in 1..Len(sync[m].operations) :
       /\ sync[m].operations[i].node_id = m
       /\ \E c \in {sync[m].operations[i].clock, U64_MAX} :
            LET top == [sync[m].operations[i] EXCEPT !.clock = c] IN
            \/ /\ sync' = [sync EXCEPT ![n] = apply_remote(sync[n], top)]
               /\ lastSync' = "apply_remote"
            \/ /\ (IF sync[n].clock > top.clock THEN sync[n].clock
                                               ELSE top.clock) = U64_MAX
               /\ sync' = sync
               /\ lastSync' = "panic"
  /\ UNCHANGED now
  /\ UNCHANGED exceptSync

\* Node n merges the state of node m (a clone of its own state when m = n).
Merge(n, m) ==
  /\ steps < MaxSteps
  /\ steps' = steps + 1
  /\ sync' = [sync EXCEPT ![n] = merge(sync[n], sync[m])]
  /\ lastSync' = "merge"
  /\ UNCHANGED now
  /\ UNCHANGED exceptSync

\* Node n applies a local operation whose metadata the caller built at or
\* before the time of the call: FileMetadata::new_file reads Utc::now() when
\* the metadata is built, TimestampedOp::new reads it again in apply_local.
ApplyLocalBuilt(n, op) ==
  /\ op.type \in {"Create", "Update"} => op.metadata.modified <= now
  /\ steps < MaxSteps
  /\ steps' = steps + 1
  /\ sync' = [sync EXCEPT ![n] = apply_local(sync[n], op, now)]
  /\ lastSync' = "apply_local"
  /\ UNCHANGED now
  /\ UNCHANGED exceptSync

SyncApplyNext ==
  \/ Tick
  \/ \E n \in Nodes, op \in FileOperation : ApplyLocalBuilt(n, op)

SyncNext ==
  \/ Tick
  \/ \E n \in Nodes, op \in FileOperation : ApplyLocal(n, op)
  \/ \E n \in Nodes, m \in Nodes : ApplyRemote(n, m)
  \/ \E n \in Nodes, m \in Nodes : Merge(n, m)

(***************************************************************************)
(* Adaptive buffer: AdaptiveBuffer::add_data, evict_to_make_room, read,    *)
(* seek and clear                                                          *)
(***************************************************************************)

\* Bounds of the buffer model: the positions data is added at, the length
\* of a chunk handed to add_data, and the configured maximum.
MaxPos == 1
MaxLen == 3
MaxBuffer == 2

Bytes == {"a", "b"}

Positions == 0..MaxPos

\* The chunks handed to add_data: the byte sequences of length 0..MaxLen that
\* alternate between the two bytes, starting with either.
Chunks ==
  {[i \in 1..n |-> IF i % 2 = 1 THEN first
                   ELSE CHOOSE other \in Bytes : other # first] :
     <<n, first>> \in (0..MaxLen) \X Bytes}

\* BufferConfig::new(min, max) with small watermarks.
BufferConfig ==
  [min_buffer_size |-> 1, max_buffer_size |-> MaxBuffer,
   low_watermark |-> 1, high_watermark |-> 16]

\* Option<u64>::None of stream_size.
NoSize == -1

\* BufferedRange::end of the range stored under key `start`.
RangeEnd(rs, start) == start + Len(rs[start])

\* BufferedRange::contains
RangeContains(rs, start, pos) ==
  /\ rs[start] # <<>>
  /\ pos >= start
  /\ pos < RangeEnd(rs, start)

\* The keys of the BTreeMap `ranges`; a key with no range maps to <<>>.
RangeKeys(rs) == {k \in Positions : rs[k] # <<>>}

\* The smallest element of a non-empty set of keys: the first one a BTreeMap
\* iterates.
FirstKey(keys) == CHOOSE k \in keys : \A j \in keys : k <= j

\* AdaptiveBuffer::new
AdaptiveBufferNew ==
  [ranges |-> [k \in Positions |-> <<>>],
   total_buffered |-> 0,
   stream_size |-> NoSize,
   read_position |-> 0,
   bytes_consumed |-> 0,
   adaptive_target |-> BufferConfig.min_buffer_size]

\* The loop of evict_to_make_room: while total_buffered exceeds the target,
\* remove the first range that ends at or before the read position, or else
\* the first range; stop when no range is left.
RECURSIVE EvictLoop(_, _)
EvictLoop(b, target_size) ==
  IF b.total_buffered > target_size
    THEN LET old == {k \in RangeKeys(b.ranges) :
                       RangeEnd(b.ranges, k) <= b.read_position}
             keys == IF old # {} THEN old ELSE RangeKeys(b.ranges)
         IN  IF keys = {}
               THEN b
               ELSE LET key == FirstKey(keys)
                    IN  EvictLoop(
                          [b EXCEPT
                             !.ranges[key] = <<>>,
                             !.total_buffered = @ - Len(b.ranges[key])],
                          target_size)
    ELSE b

\* AdaptiveBuffer::evict_to_make_room; the target saturates at 0.
evict_to_make_room(b, needed_space) ==
  LET max == BufferConfig.max_buffer_size
      target_size == IF needed_space > max THEN 0 ELSE max - needed_space
  IN  EvictLoop(b, target_size)

\* AdaptiveBuffer::add_data
add_data(b, position, data) ==
  IF data = <<>>
    THEN b
    ELSE LET max == BufferConfig.max_buffer_size
             data_len == Len(data)
             evicted == IF b.total_buffered + data_len > max
                          THEN evict_to_make_room(b, data_len)
                          ELSE b
             kept == IF data_len > max THEN SubSeq(data, 1, max) ELSE data
         IN  [evicted EXCEPT
                !.ranges[position] = kept,
                !.total_buffered = @ + Len(kept)]

\* AdaptiveBuffer::adapt_buffer_size
adapt_buffer_size(b) ==
  LET adaptation_threshold == BufferConfig.high_watermark \div 8
      grown == (b.adaptive_target * 3) \div 2
  IN  IF b.bytes_consumed >= adaptation_threshold
        THEN [b EXCEPT
                !.adaptive_target =
                  IF grown < BufferConfig.max_buffer_size
                    THEN grown ELSE BufferConfig.max_buffer_size,
                !.bytes_consumed = 0]
        ELSE b

\* read that returns the data but leaves the read position where it was
read_NoAdvance(b, len) ==
  LET pos == b.read_position
      holding == {k \in Positions : RangeContains(b.ranges, k, pos)}
  IN  IF holding = {}
        THEN [buffer |-> b, found |-> FALSE, data |-> <<>>]
        ELSE LET range_start == FirstKey(holding)
                 range_data == b.ranges[range_start]
                 offset == pos - range_start
                 available == Len(range_data) - offset
                 to_read == IF len < available THEN len ELSE available
                 data == SubSeq(range_data, offset + 1, offset + to_read)
             IN  [buffer |->
                    adapt_buffer_size([b EXCEPT !.bytes_consumed = @ + to_read]),
                  found |-> TRUE,
                  data |-> data]

\* AdaptiveBuffer::read: the buffer after the call and the returned Option
\* (found FALSE for None).
read(b, len) ==
  LET pos == b.read_position
      holding == {k \in Positions : RangeContains(b.ranges, k, pos)}
  IN  IF holding = {}
        THEN [buffer |-> b, found |-> FALSE, data |-> <<>>]
        ELSE LET range_start == FirstKey(holding)
                 range_data == b.ranges[range_start]
                 offset == pos - range_start
                 available == Len(range_data) - offset
                 to_read == IF len < available THEN len ELSE available
                 data == SubSeq(range_data, offset + 1, offset + to_read)
             IN  [buffer |->
                    adapt_buffer_size(
                      [b EXCEPT !.read_position = @ + to_read,
                                !.bytes_consumed = @ + to_read]),
                  found |-> TRUE,
                  data |-> data]

\* seek that moves the cursor before it tests the position against the
\* stream size
seek_MoveFirst(b, position) ==
  IF b.stream_size # NoSize /\ position > b.stream_size
    THEN [buffer |-> [b EXCEPT !.read_position = position], result |-> FALSE]
    ELSE [buffer |-> [b EXCEPT !.read_position = position],
          result |-> \E k \in Positions : RangeContains(b.ranges, k, position)]

\* AdaptiveBuffer::seek: the buffer after the call and the returned bool.
seek(b, position) ==
  IF b.stream_size # NoSize /\ position > b.stream_size
    THEN [buffer |-> b, result |-> FALSE]
    ELSE [buffer |-> [b EXCEPT !.read_position = position],
          result |-> \E k \in Positions : RangeContains(b.ranges, k, position)]

\* AdaptiveBuffer::clear
clear(b) ==
  [b EXCEPT !.ranges = [k \in Positions |-> <<>>],
            !.total_buffered = 0,
            !.read_position = 0]

BufInit ==
  /\ buffer = AdaptiveBufferNew
  /\ lastBuf = [op |-> "none", found |-> FALSE, data |-> <<>>, arg |-> 0]

\* AdaptiveBuffer::with_stream_size, called on the buffer new() returned.
WithStreamSize(size) ==
  /\ buffer = AdaptiveBufferNew
  /\ buffer' = [buffer EXCEPT !.stream_size = size]
  /\ lastBuf' = [op |-> "with_stream_size", found |-> FALSE, data |-> <<>>,
                 arg |-> size]
  /\ UNCHANGED exceptBuf

AddData(position, data) ==
  /\ buffer' = add_data(buffer, position, data)
  /\ lastBuf' = [op |-> "add_data", found |-> FALSE, data |-> data,
                 arg |-> position]
  /\ UNCHANGED exceptBuf

Read(len) ==
  /\ buffer' = read(buffer, len).buffer
  /\ lastBuf' = [op |-> "read", found |-> read(buffer, len).found,
                 data |-> read(buffer, len).data, arg |-> len]
  /\ UNCHANGED exceptBuf

Seek(position) ==
  /\ buffer' = seek(buffer, position).buffer
  /\ lastBuf' = [op |-> "seek", found |-> seek(buffer, position).result,
                 data |-> <<>>, arg |-> position]
  /\ UNCHANGED exceptBuf

Clear ==
  /\ buffer' = clear(buffer)
  /\ lastBuf' = [op |-> "clear", found |-> FALSE, data |-> <<>>, arg |-> 0]
  /\ UNCHANGED exceptBuf

BufNext ==
  \/ \E size \in 0..MaxPos : WithStreamSize(size)
  \/ \E position \in Positions, data \in Chunks : AddData(position, data)
  \/ \E len \in 0..MaxLen : Read(len)
  \/ \E position \in 0..(MaxPos + 1) : Seek(position)
  \/ Clear

(***************************************************************************)
(* State-change broadcast: the channel StateManager::new creates with      *)
(* STATE_CHANNEL_CAPACITY slots, the send() that ends set_state and        *)
(* try_transition, and receivers obtained from subscribe(). The channel    *)
(* keeps the last STATE_CHANNEL_CAPACITY events; a receiver whose next     *)
(* event is no longer kept gets Lagged and continues at the oldest kept.   *)
(***************************************************************************)

STATE_CHANNEL_CAPACITY == 16
MaxSent == 17

Subscribers == {"s1", "s2"}

\* StateManager::new followed by subscribe() for every subscriber
BcInit ==
  /\ bc_sent = 0
  /\ bc_pc = [t \in Tasks |-> "idle"]
  /\ rx_next = [s \in Subscribers |-> 0]
  /\ rx_lost = [s \in Subscribers |-> 0]

\* set_state or try_transition to a different (and allowed) state, up to
\* drop(state): the state is replaced under the write lock.
Publish(t) ==
  /\ bc_pc[t] = "idle"
  /\ bc_sent + Cardinality({u \in Tasks : bc_pc[u] # "idle"}) < MaxSent
  /\ bc_pc' = [bc_pc EXCEPT ![t] = "send"]
  /\ UNCHANGED <<bc_sent, rx_next, rx_lost>>
  /\ UNCHANGED exceptBc

\* sender.send() that completes only when every receiver has a free slot,
\* as the send of a bounded queue does
SendEvent_WaitForReceivers(t) ==
  /\ bc_pc[t] = "send"
  /\ \A s \in Subscribers : bc_sent - rx_next[s] < STATE_CHANNEL_CAPACITY
  /\ bc_sent' = bc_sent + 1
  /\ bc_pc' = [bc_pc EXCEPT ![t] = "idle"]
  /\ UNCHANGED <<rx_next, rx_lost>>
  /\ UNCHANGED exceptBc

\* The rest of set_state and try_transition: sender.send(event), whose
\* result is dropped, then return.
SendEvent(t) ==
  /\ bc_pc[t] = "send"
  /\ bc_sent' = bc_sent + 1
  /\ bc_pc' = [bc_pc EXCEPT ![t] = "idle"]
  /\ UNCHANGED <<rx_next, rx_lost>>
  /\ UNCHANGED exceptBc

\* recv() on the receiver of subscriber s when an event is there for it:
\* Lagged when its next event is no longer kept, else the next event.
Recv(s) ==
  /\ rx_next[s] < bc_sent
  /\ IF rx_next[s] < bc_sent - STATE_CHANNEL_CAPACITY
       THEN /\ rx_next' = [rx_next EXCEPT
                             ![s] = bc_sent - STATE_CHANNEL_CAPACITY]
            /\ rx_lost' = [rx_lost EXCEPT
                             ![s] = @ + (bc_sent - STATE_CHANNEL_CAPACITY)
                                      - rx_next[s]]
       ELSE /\ rx_next' = [rx_next EXCEPT ![s] = @ + 1]
            /\ UNCHANGED rx_lost
  /\ UNCHANGED <<bc_sent, bc_pc>>
  /\ UNCHANGED exceptBc

BcNext ==
  \/ \E t \in Tasks : Publish(t)
  \/ \E t \in Tasks : SendEvent(t)
  \/ \E s \in Subscribers : Recv(s)

(***************************************************************************)
(* Chunk store: Chunk::new, ChunkStore::store and garbage_collect          *)
(* (vdfs/chunk.rs). A chunk is {id, data}; both fields are public.         *)
(***************************************************************************)

ChunkSize == 1

\* The byte sequences of length 1..n
BytesUpTo(n) == UNION {[1..k -> Bytes] : k \in 1..n}

\* Chunk::new
ChunkNew(data) == [id |-> HashData(data), data |-> data]

\* The chunks handed to store(): Chunk::new of every data of at most
\* ChunkSize bytes, and one chunk built field by field whose id is the hash
\* of other data.
StoreInputs ==
  {ChunkNew(d) : d \in BytesUpTo(ChunkSize)}
    \cup {[id |-> HashData(<<"a">>), data |-> <<"b">>]}

\* store that inserts the chunk under its id whether or not one is there
store_Insert(chunks, chunk) ==
  {c \in chunks : c.id # chunk.id} \cup {chunk}

\* ChunkStore::store under the write lock: entry(id).or_insert(chunk)
store(chunks, chunk) ==
  IF \E c \in chunks : c.id = chunk.id THEN chunks ELSE chunks \cup {chunk}

\* garbage_collect that retains the chunks that are not referenced
garbage_collect_Inverted(chunks, referenced_ids) ==
  LET kept == {c \in chunks : c.id \notin referenced_ids}
  IN  [chunks |-> kept, removed_count |-> Cardinality(chunks \ kept)]

\* ChunkStore::garbage_collect: the retained chunks and the removed count
garbage_collect(chunks, referenced_ids) ==
  LET kept == {c \in chunks : c.id \in referenced_ids}
  IN  [chunks |-> kept, removed_count |-> Cardinality(chunks \ kept)]

\* ChunkStore::new
CsInit ==
  /\ cs = {}
  /\ cs_pc = [t \in Tasks |-> "idle"]
  /\ cs_arg = [t \in Tasks |-> ChunkNew(<<>>)]
  /\ lastCs = [op |-> "none", id |-> HashData(<<>>), removed |-> 0]

\* A task calls store(chunk) and waits for the write lock.
StoreCall(t, chunk) ==
  /\ cs_pc[t] = "idle"
  /\ cs_pc' = [cs_pc EXCEPT ![t] = "store"]
  /\ cs_arg' = [cs_arg EXCEPT ![t] = chunk]
  /\ UNCHANGED <<cs, lastCs>>
  /\ UNCHANGED exceptCs

\* The task holds the write lock, inserts and returns the id.
StoreInsert(t) ==
  /\ cs_pc[t] = "store"
  /\ cs' = store(cs, cs_arg[t])
  /\ cs_pc' = [cs_pc EXCEPT ![t] = "idle"]
  /\ lastCs' = [op |-> "store", id |-> cs_arg[t].id, removed |-> 0]
  /\ UNCHANGED cs_arg
  /\ UNCHANGED exceptCs

\* One call of garbage_collect, which runs under the write lock.
GarbageCollect(referenced_ids) ==
  /\ cs' = garbage_collect(cs, referenced_ids).chunks
  /\ lastCs' = [op |-> "garbage_collect", id |-> HashData(<<>>),
                removed |-> garbage_collect(cs, referenced_ids).removed_count]
  /\ UNCHANGED <<cs_pc, cs_arg>>
  /\ UNCHANGED exceptCs

CsNext ==
  \/ \E t \in Tasks, chunk \in StoreInputs : StoreCall(t, chunk)
  \/ \E t \in Tasks : StoreInsert(t)
  \/ \E referenced_ids \in SUBSET {c.id : c \in StoreInputs} :
       GarbageCollect(referenced_ids)

(***************************************************************************)
(* Virtual file system: VirtualFs::write, read, delete and mkdir           *)
(* (vdfs/filesystem.rs) over its chunk store and the files map that        *)
(* SyncEngine::create_file and delete_file maintain. The file system is    *)
(* built with_chunk_size(ChunkSize).                                       *)
(***************************************************************************)

MaxData == 2

\* The contents written: the byte sequences of length 0..MaxData
VfsDatas == {<<>>} \cup BytesUpTo(MaxData)

\* files.get(path) for a path with no entry
NoEntry == [file_type |-> "None", content_hash |-> HashData(<<>>), chunks |-> <<>>]

\* chunk_data: the chunks of slices.chunks(chunk_size), in order
RECURSIVE chunk_data(_, _)
chunk_data(data, chunk_size) ==
  IF data = <<>>
    THEN <<>>
    ELSE LET n == IF Len(data) < chunk_size THEN Len(data) ELSE chunk_size
         IN  <<ChunkNew(SubSeq(data, 1, n))>>
               \o chunk_data(SubSeq(data, n + 1, Len(data)), chunk_size)

\* reassemble_chunks
RECURSIVE reassemble_chunks(_)
reassemble_chunks(chunks) ==
  IF chunks = <<>> THEN <<>>
  ELSE Head(chunks).data \o reassemble_chunks(Tail(chunks))

\* VirtualFs::read: the Result and, for Ok, the data
vfs_read(chunks, files, path) ==
  LET metadata == files[path]
      found == [i \in 1..Len(metadata.chunks) |->
                  {c \in chunks : c.id = metadata.chunks[i]}]
  IN  IF metadata.file_type # "File"
        THEN [result |-> "NotFound", data |-> <<>>]
      ELSE IF \E i \in 1..Len(metadata.chunks) : found[i] = {}
        THEN [result |-> "ChunkNotFound", data |-> <<>>]
      ELSE LET data == reassemble_chunks(
                         [i \in 1..Len(metadata.chunks) |->
                            CHOOSE c \in found[i] : TRUE])
           IN  IF HashData(data) # metadata.content_hash
                 THEN [result |-> "HashMismatch", data |-> <<>>]
                 ELSE [result |-> "Ok", data |-> data]

\* VirtualFs::new
VfsInit ==
  /\ vfs_chunks = {}
  /\ vfs_files = [p \in Paths |-> NoEntry]
  /\ vfs_written = [p \in Paths |-> <<>>]
  /\ lastVfs = [op |-> "none", result |-> "None"]

\* VirtualFs::write: store every chunk of the data, then create_file with
\* the metadata of FileMetadata::new_file.
VfsWrite(path, data) ==
  LET chunks == chunk_data(data, ChunkSize)
      stored == {chunks[i] : i \in 1..Len(chunks)}
  IN  /\ vfs_chunks' = vfs_chunks \cup
                          {c \in stored : ~\E d \in vfs_chunks : d.id = c.id}
      /\ vfs_files' = [vfs_files EXCEPT
                         ![path] = [file_type |-> "File",
                                    content_hash |-> HashData(data),
                                    chunks |-> [i \in 1..Len(chunks) |->
                                                  chunks[i].id]]]
      /\ vfs_written' = [vfs_written EXCEPT ![path] = data]
      /\ lastVfs' = [op |-> "write", result |-> "Ok"]
      /\ UNCHANGED exceptVfs

\* VirtualFs::read
VfsRead(path) ==
  /\ lastVfs' = [op |-> "read",
                 result |-> vfs_read(vfs_chunks, vfs_files, path).result]
  /\ UNCHANGED <<vfs_chunks, vfs_files, vfs_written>>
  /\ UNCHANGED exceptVfs

\* VirtualFs::delete: NotFound without an entry; else remove every chunk the
\* metadata lists from the store, then delete_file.
VfsDelete(path) ==
  /\ IF vfs_files[path] = NoEntry
       THEN /\ lastVfs' = [op |-> "delete", result |-> "NotFound"]
            /\ UNCHANGED <<vfs_chunks, vfs_files, vfs_written>>
       ELSE /\ vfs_chunks' =
                 {c \in vfs_chunks :
                    \A i \in 1..Len(vfs_files[path].chunks) :
                      c.id # vfs_files[path].chunks[i]}
            /\ vfs_files' = [vfs_files EXCEPT ![path] = NoEntry]
            /\ vfs_written' = [vfs_written EXCEPT ![path] = <<>>]
            /\ lastVfs' = [op |-> "delete", result |-> "Ok"]
  /\ UNCHANGED exceptVfs

\* VirtualFs::mkdir: create_file with the metadata of new_directory
VfsMkdir(path) ==
  /\ vfs_files' = [vfs_files EXCEPT
                     ![path] = [file_type |-> "Directory",
                                content_hash |-> HashData(<<>>),
                                chunks |-> <<>>]]
  /\ vfs_written' = [vfs_written EXCEPT ![path] = <<>>]
  /\ lastVfs' = [op |-> "mkdir", result |-> "Ok"]
  /\ UNCHANGED vfs_chunks
  /\ UNCHANGED exceptVfs

VfsNext ==
  \/ \E path \in Paths, data \in VfsDatas : VfsWrite(path, data)
  \/ \E path \in Paths : VfsRead(path)
  \/ \E path \in Paths : VfsDelete(path)
  \/ \E path \in Paths : VfsMkdir(path)

(***************************************************************************)
(* Backoff delays: ReconnectionStrategy::delay_for_attempt (config.rs).    *)
(* Durations are in milliseconds.                                          *)
(***************************************************************************)

MaxDuration == 3
MaxAttemptArg == 12

\* Duration::MAX, at which saturating_mul saturates. The model gives a
\* Duration 30 bits; delay_for_attempt uses only that no Duration is greater.
DURATION_MAX == 1073741823

\* The delays a strategy is built with: a few milliseconds, the same in units
\* of 1024 ms, the defaults, and the greatest Duration.
Durations ==
  (0..MaxDuration) \cup {1024 * d : d \in 0..MaxDuration}
     \cup {1000, 60000, DURATION_MAX}

\* Duration::saturating_mul
SaturatingMul(d, k) ==
  IF d > DURATION_MAX \div k THEN DURATION_MAX ELSE d * k

\* The values of rand::random::<u64>() % jitter_max the model draws: the
\* least and the greatest.
JitterDraws(jitter_max) ==
  IF jitter_max > 0 THEN {0, jitter_max - 1} ELSE {0}

\* delay_for_attempt that returns the exponential delay without the cap
delay_for_attempt_NoCap(self, n, jitter) ==
  LET capped_attempt == IF n < 10 THEN n ELSE 10
      multiplier == 2 ^ capped_attempt
      exponential == SaturatingMul(self.base_delay, multiplier)
  IN  IF self.jitter /\ exponential \div 4 > 0 THEN exponential + jitter
      ELSE exponential

\* delay_for_attempt that adds jitter of up to the whole delay, not a quarter
delay_for_attempt_FullJitter(self, n, jitter) ==
  LET capped_attempt == IF n < 10 THEN n ELSE 10
      multiplier == 2 ^ capped_attempt
      exponential == SaturatingMul(self.base_delay, multiplier)
      capped == IF exponential > self.max_delay THEN self.max_delay
                ELSE exponential
  IN  IF self.jitter /\ capped \div 4 > 0 THEN capped + 4 * jitter ELSE capped

\* ReconnectionStrategy::delay_for_attempt; `jitter` is the drawn value of
\* rand::random::<u64>() % jitter_max, used when jitter is enabled.
delay_for_attempt(self, n, jitter) ==
  LET capped_attempt == IF n < 10 THEN n ELSE 10
      multiplier == 2 ^ capped_attempt
      exponential == SaturatingMul(self.base_delay, multiplier)
      capped == IF exponential > self.max_delay THEN self.max_delay
                ELSE exponential
  IN  IF self.jitter /\ capped \div 4 > 0 THEN capped + jitter ELSE capped

\* ReconnectionStrategy::default
BackoffInit ==
  /\ backoff = [max_attempts |-> 5, base_delay |-> 1000, max_delay |-> 60000,
                jitter |-> TRUE]
  /\ lastDelay = [called |-> FALSE, attempt |-> 0, delay |-> 0]

\* ReconnectionStrategy::new(max_attempts, base_delay, max_delay), followed
\* by without_jitter() when `jitter` is FALSE.
NewStrategy(base_delay, max_delay, jitter) ==
  /\ backoff' = [max_attempts |-> 5, base_delay |-> base_delay,
                 max_delay |-> max_delay, jitter |-> jitter]
  /\ lastDelay' = [called |-> FALSE, attempt |-> 0, delay |-> 0]
  /\ UNCHANGED exceptBackoff

\* One call of delay_for_attempt that returns. With jitter enabled, the
\* addition of the jitter panics when the sum exceeds Duration::MAX.
DelayForAttempt(n) ==
  /\ \E jitter \in JitterDraws(
          delay_for_attempt([backoff EXCEPT !.jitter = FALSE], n, 0) \div 4) :
       /\ delay_for_attempt(backoff, n, jitter) <= DURATION_MAX
       /\ lastDelay' = [called |-> TRUE, attempt |-> n,
                        delay |-> delay_for_attempt(backoff, n, jitter)]
  /\ UNCHANGED backoff
  /\ UNCHANGED exceptBackoff

BackoffNext ==
  \/ \E base_delay \in Durations, max_delay \in Durations, jitter \in BOOLEAN :
       NewStrategy(base_delay, max_delay, jitter)
  \/ \E n \in 0..MaxAttemptArg : DelayForAttempt(n)

(***************************************************************************)
(* Synchronised video streaming: streaming/video.rs                        *)
(*                                                                         *)
(* Positions are f64 seconds in the source; here they are held in          *)
(* thousandths of a second, so that elapsed_ms / 1000.0 * speed is the     *)
(* integer elapsed_ms * speed.  event_tx is held as the sequence of the    *)
(* events sent on it since the session was made.                           *)
(***************************************************************************)

MaxWallMs == 2000
MaxEmitted == 2

TickSteps == {500, 1500}
StreamSources == {"url_a", "url_b"}
StreamPositions == {1000}
Speeds == {1, 2}

\* impl Default for PlaybackState
PlaybackState_default(now_ms) ==
  [playing |-> FALSE, position |-> 0, speed |-> 1, sync_time |-> now_ms]

create_room(source, now_ms) ==
  [is_host |-> TRUE,
   room |-> [source |-> source, playback |-> PlaybackState_default(now_ms),
             peers |-> <<>>],
   event_tx |-> <<>>]

join_room(room) ==
  [is_host |-> FALSE, room |-> room, event_tx |-> <<>>]

\* the send's result is dropped: always Ok
broadcast_event(self, event) ==
  [result |-> "Ok",
   self |-> [self EXCEPT !.event_tx = Append(@, event)]]

play(self, now_ms) ==
  LET room == [self.room EXCEPT !.playback.playing = TRUE,
                                !.playback.sync_time = now_ms]
  IN  broadcast_event([self EXCEPT !.room = room],
                      [type |-> "Play", position |-> room.playback.position])

pause(self, now_ms) ==
  LET room == [self.room EXCEPT !.playback.playing = FALSE,
                                !.playback.sync_time = now_ms]
  IN  broadcast_event([self EXCEPT !.room = room],
                      [type |-> "Pause", position |-> room.playback.position])

stream_seek(self, position, now_ms) ==
  LET room == [self.room EXCEPT !.playback.position = position,
                                !.playback.sync_time = now_ms]
  IN  broadcast_event([self EXCEPT !.room = room],
                      [type |-> "Seek", position |-> position])

update_position(self, position) ==
  [self EXCEPT !.room.playback.position = position]

set_speed(self, speed, now_ms) ==
  LET room == [self.room EXCEPT !.playback.speed = speed,
                                !.playback.sync_time = now_ms]
  IN  broadcast_event([self EXCEPT !.room = room],
                      [type |-> "Speed", speed |-> speed])

change_source_AnySession(self, source, now_ms) ==
  LET room == [self.room EXCEPT !.source = source,
                                !.playback = PlaybackState_default(now_ms)]
  IN  broadcast_event([self EXCEPT !.room = room],
                      [type |-> "SourceChanged", source |-> source])

change_source(self, source, now_ms) ==
  IF ~self.is_host
    THEN [result |-> "Err", self |-> self]
    ELSE LET room == [self.room EXCEPT
                        !.source = source,
                        !.playback = PlaybackState_default(now_ms)]
         IN  broadcast_event([self EXCEPT !.room = room],
                             [type |-> "SourceChanged", source |-> source])

\* the incoming events the model hands to handle_event
PeerIds == {"peer_1", "peer_2"}

SyncEvent ==
  {[type |-> "Play", position |-> 1000],
   [type |-> "Pause", position |-> 0],
   [type |-> "Seek", position |-> 1000],
   [type |-> "Speed", speed |-> 2],
   [type |-> "PeerLeft", peer_id |-> "peer_1"],
   [type |-> "RequestSync"],
   [type |-> "StateSync",
    state |-> [playing |-> TRUE, position |-> 1000, speed |-> 2,
               sync_time |-> 0]]}
    \cup {[type |-> "PeerJoined", peer_id |-> p] : p \in PeerIds}
    \cup {[type |-> "SourceChanged", source |-> "url_b"]}

\* peers.contains(peer_id)
PeersContain(peers, peer_id) == \E i \in 1..Len(peers) : peers[i] = peer_id

\* peers.retain(|p| p != peer_id)
RECURSIVE PeersWithout(_, _)
PeersWithout(peers, peer_id) ==
  IF peers = <<>>
    THEN <<>>
    ELSE IF Head(peers) = peer_id
           THEN PeersWithout(Tail(peers), peer_id)
           ELSE <<Head(peers)>> \o PeersWithout(Tail(peers), peer_id)

\* the match of handle_event: the session after the arm of `event`
HandleArm(self, event, now_ms) ==
  CASE event.type = "Play" ->
         [self EXCEPT !.room.playback.playing = TRUE,
                      !.room.playback.position = event.position,
                      !.room.playback.sync_time = now_ms]
    [] event.type = "Pause" ->
         [self EXCEPT !.room.playback.playing = FALSE,
                      !.room.playback.position = event.position,
                      !.room.playback.sync_time = now_ms]
    [] event.type = "Seek" ->
         [self EXCEPT !.room.playback.position = event.position,
                      !.room.playback.sync_time = now_ms]
    [] event.type = "Speed" ->
         [self EXCEPT !.room.playback.speed = event.speed]
    [] event.type = "PeerJoined" ->
         IF ~PeersContain(self.room.peers, event.peer_id)
           THEN [self EXCEPT !.room.peers = Append(@, event.peer_id)]
           ELSE self
    [] event.type = "PeerLeft" ->
         [self EXCEPT !.room.peers = PeersWithout(@, event.peer_id)]
    [] event.type = "SourceChanged" ->
         [self EXCEPT !.room.source = event.source,
                      !.room.playback = PlaybackState_default(now_ms)]
    [] event.type = "RequestSync" ->
         IF self.is_host
           THEN broadcast_event(self, [type |-> "StateSync",
                                       state |-> self.room.playback]).self
           ELSE self
    [] event.type = "StateSync" ->
         [self EXCEPT !.room.playback = event.state]

\* handle_event that lists a joining peer without looking for it first
handle_event_PushPeer(self, event, now_ms) ==
  LET arm == IF event.type = "PeerJoined"
               THEN [self EXCEPT !.room.peers = Append(@, event.peer_id)]
               ELSE HandleArm(self, event, now_ms)
  IN  [result |-> "Ok",
       self |-> [arm EXCEPT !.event_tx = Append(@, event)]]

\* StreamSession::handle_event: the arm, then the event is sent again to the
\* local subscribers
handle_event(self, event, now_ms) ==
  LET arm == HandleArm(self, event, now_ms)
  IN  [result |-> "Ok",
       self |-> [arm EXCEPT !.event_tx = Append(@, event)]]

\* in thousandths of a second
expected_position(self, now_ms) ==
  LET pb == self.room.playback
  IN  IF ~pb.playing
        THEN pb.position
        ELSE pb.position + (now_ms - pb.sync_time) * pb.speed

StreamInit ==
  /\ wall_ms = 0
  /\ session = create_room("url_a", 0)
  /\ lastStream = [op |-> "create_room", result |-> "Ok"]

\* A call returns: the session it leaves and the observer.  The events kept
\* on event_tx are capped at MaxEmitted.
StreamReturns(op, r) ==
  /\ Len(r.self.event_tx) <= MaxEmitted
  /\ session' = r.self
  /\ lastStream' = [op |-> op, result |-> r.result]

CreateRoom(source) ==
  /\ StreamReturns("create_room",
                   [result |-> "Ok", self |-> create_room(source, wall_ms)])
  /\ UNCHANGED wall_ms
  /\ UNCHANGED exceptStream

\* a peer joins with the room as the host holds it
JoinRoom ==
  /\ StreamReturns("join_room",
                   [result |-> "Ok", self |-> join_room(session.room)])
  /\ UNCHANGED wall_ms
  /\ UNCHANGED exceptStream

StreamPlay ==
  /\ StreamReturns("play", play(session, wall_ms))
  /\ UNCHANGED wall_ms
  /\ UNCHANGED exceptStream

StreamPause ==
  /\ StreamReturns("pause", pause(session, wall_ms))
  /\ UNCHANGED wall_ms
  /\ UNCHANGED exceptStream

StreamSeek(position) ==
  /\ StreamReturns("seek", stream_seek(session, position, wall_ms))
  /\ UNCHANGED wall_ms
  /\ UNCHANGED exceptStream

UpdatePosition(position) ==
  /\ StreamReturns("update_position",
                   [result |-> "Ok",
                    self |-> update_position(session, position)])
  /\ UNCHANGED wall_ms
  /\ UNCHANGED exceptStream

SetSpeed(speed) ==
  /\ StreamReturns("set_speed", set_speed(session, speed, wall_ms))
  /\ UNCHANGED wall_ms
  /\ UNCHANGED exceptStream

ChangeSource(source) ==
  /\ StreamReturns("change_source", change_source(session, source, wall_ms))
  /\ UNCHANGED wall_ms
  /\ UNCHANGED exceptStream

HandleEvent(event) ==
  /\ StreamReturns("handle_event", handle_event(session, event, wall_ms))
  /\ UNCHANGED wall_ms
  /\ UNCHANGED exceptStream

\* wall-clock time passes
StreamTick(d) ==
  /\ wall_ms + d <= MaxWallMs
  /\ wall_ms' = wall_ms + d
  /\ lastStream' = [op |-> "tick", result |-> "Ok"]
  /\ UNCHANGED session
  /\ UNCHANGED exceptStream

StreamNext ==
  \/ \E source \in StreamSources : CreateRoom(source)
  \/ JoinRoom
  \/ StreamPlay
  \/ StreamPause
  \/ \E position \in StreamPositions : StreamSeek(position)
  \/ \E position \in StreamPositions : UpdatePosition(position)
  \/ \E speed \in Speeds : SetSpeed(speed)
  \/ \E source \in StreamSources : ChangeSource(source)
  \/ \E d \in TickSteps : StreamTick(d)

\* a session that handles the events its peers send
StreamEventsNext ==
  \/ JoinRoom
  \/ \E event \in SyncEvent : HandleEvent(event)

(***************************************************************************)
(* ConnectionManager::reconnect_with_strategy: the reconnection controller *)
(* driven with a connect closure that publishes Reconnecting{attempt}, and *)
(* the state published when the controller returns (manager.rs).           *)
(* One task calls the manager; publications are those of its StateManager. *)
(***************************************************************************)

\* e.to_string() of the ReconnectionError a call returns, as a number: the
\* text of Cancelled, or the text of AttemptsExhausted with its attempts (the
\* last error is the connector's, the same in every attempt).
ErrorReason(result, attempts) ==
    IF result = "Cancelled" THEN 0 ELSE 1 + attempts

\* StateManager::set_state as one step of a single caller: the state and
\* what was broadcast
set_state(state, published, new_state) ==
    IF state = new_state
    THEN [state |-> state, published |-> published]
    ELSE [state |-> new_state, published |-> Append(published, new_state)]

\* ConnectionManager::new
MgrInit ==
    /\ mgr_pc = "idle"
    /\ mgr_state = Disconnected
    /\ mgr_published = <<>>
    /\ mgr_before = Disconnected
    /\ mgr_result = "None"

\* reconnect_with_strategy is called and calls reconnect(): reset() stores
\* current_attempt = 0 first
MgrStart(st) ==
    /\ mgr_pc = "idle"
    /\ ~Running
    /\ mgr_pc' = "running"
    /\ mgr_published' = <<>>
    /\ mgr_before' = mgr_state
    /\ mgr_result' = "None"
    /\ strategy' = st
    /\ current_attempt' = 0
    /\ rpc' = "reset_max"
    /\ attempt' = 0
    /\ rresult' = "None"
    /\ connects' = 0
    /\ cancel_seen' = IF cpc = "notify" THEN "pending" ELSE "no"
    /\ after_cancel' = 0
    /\ UNCHANGED <<max_attempts, cancelled, notified, cpc>>
    /\ UNCHANGED mgr_state
    /\ UNCHANGED <<chanVars, smVars, syncVars, bufVars, encVars, hsVars,
                   backoffVars, bcVars, csVars, vfsVars, streamVars>>

\* the connect closure that publishes the attempt number of the loop, which
\* counts from 0
MgrConnectCall_LoopIndex ==
    /\ rpc = "connect"
    /\ mgr_pc = "running"
    /\ connects' = connects + 1
    /\ rpc' = "connecting"
    /\ after_cancel' = IF cancel_seen = "returned" THEN after_cancel + 1
                       ELSE after_cancel
    /\ mgr_state' = [kind |-> "Reconnecting", arg |-> attempt]
    /\ mgr_published' = Append(mgr_published,
                               [kind |-> "Reconnecting", arg |-> attempt])
    /\ UNCHANGED <<current_attempt, max_attempts, cancelled, notified, strategy,
                   attempt, rresult, cpc, cancel_seen>>
    /\ UNCHANGED <<mgr_pc, mgr_before, mgr_result>>
    /\ UNCHANGED <<chanVars, smVars, syncVars, bufVars, encVars, hsVars,
                   backoffVars, bcVars, csVars, vfsVars, streamVars>>

\* connect() is invoked: the closure reads current_attempt(), and its future
\* publishes Reconnecting{attempt} and then begins connect_internal()
MgrConnectCall ==
    /\ rpc = "connect"
    /\ mgr_pc = "running"
    /\ connects' = connects + 1
    /\ rpc' = "connecting"
    /\ after_cancel' = IF cancel_seen = "returned" THEN after_cancel + 1
                       ELSE after_cancel
    /\ LET r == set_state(mgr_state, mgr_published,
                          Reconnecting(current_attempt))
       IN  /\ mgr_state' = r.state
           /\ mgr_published' = r.published
    /\ UNCHANGED <<current_attempt, max_attempts, cancelled, notified, strategy,
                   attempt, rresult, cpc, cancel_seen>>
    /\ UNCHANGED <<mgr_pc, mgr_before, mgr_result>>
    /\ UNCHANGED <<chanVars, smVars, syncVars, bufVars, encVars, hsVars,
                   backoffVars, bcVars, csVars, vfsVars, streamVars>>

\* reconnect() has returned: map publishes Connected on Ok, map_err publishes
\* Failed{reason: e.to_string()} on an error, and the call returns
MgrFinish ==
    /\ mgr_pc = "running"
    /\ rpc = "done"
    /\ LET r == set_state(mgr_state, mgr_published,
                          IF rresult = "Ok"
                          THEN Connected
                          ELSE Failed(ErrorReason(rresult,
                                                  strategy.max_attempts)))
       IN  /\ mgr_state' = r.state
           /\ mgr_published' = r.published
    /\ mgr_pc' = "idle"
    /\ mgr_result' = rresult
    /\ UNCHANGED mgr_before
    /\ UNCHANGED reconVars
    /\ UNCHANGED <<chanVars, smVars, syncVars, bufVars, encVars, hsVars,
                   backoffVars, bcVars, csVars, vfsVars, streamVars>>

MgrNext ==
    \/ \E st \in Strategies : MgrStart(st)
    \/ ResetMax
    \/ ResetCancelled
    \/ StoreMax
    \/ LoopHead
    \/ StoreAttempt
    \/ BeginSleep
    \/ SleepElapsed
    \/ SleepCancelled
    \/ MgrConnectCall
    \/ ConnectReturn
    \/ Exhausted
    \/ CancelStore
    \/ CancelNotify
    \/ MgrFinish

(***************************************************************************)
(* Specifications, one per subsystem                                       *)
(***************************************************************************)

Init ==
  /\ ChanInit /\ ReconInit /\ SmInit /\ SyncInit /\ BufInit /\ EncInit
  /\ HsInit /\ BackoffInit /\ BcInit /\ CsInit /\ VfsInit
  /\ StreamInit /\ MgrInit

SpecChannel == Init /\ [][ChanNext]_vars

SpecReconnect == Init /\ [][ReconNext]_vars

SpecManager == Init /\ [][MgrNext]_vars

SpecState == Init /\ [][SmNext]_vars

\* The sync states start from the inputs of merge: states that hold files.
InitSync ==
  /\ ChanInit /\ ReconInit /\ SmInit /\ SyncInputs /\ BufInit /\ EncInit
  /\ HsInit /\ BackoffInit /\ BcInit /\ CsInit /\ VfsInit
  /\ StreamInit /\ MgrInit

SpecSync == InitSync /\ [][SyncNext]_vars

SpecSyncApply == InitSync /\ [][SyncApplyNext]_vars

SpecBuffer == Init /\ [][BufNext]_vars

SpecEncrypt == Init /\ [][EncNext]_vars

SpecHandshake == Init /\ [][HsNext]_vars

SpecHandshakeForged == Init /\ [][HsForgedNext]_vars

SpecBackoff == Init /\ [][BackoffNext]_vars

SpecBroadcast == Init /\ [][BcNext]_vars

SpecChunkStore == Init /\ [][CsNext]_vars

SpecVfs == Init /\ [][VfsNext]_vars

SpecStream == Init /\ [][StreamNext]_vars

SpecStreamEvents == Init /\ [][StreamEventsNext]_vars

\* C3: once a cancel_reconnection() called during a reconnect() call has
\* returned, that call begins no further backoff sleep and no further connect
\* attempt.
C3_CancelSticky == after_cancel = 0

\* what the connect closure and the strategy of the call allow
ExpectedConnects ==
    IF strategy.succeed_at \in 1..strategy.max_attempts
    THEN strategy.succeed_at
    ELSE strategy.max_attempts

\* C4: a reconnect() call that no cancel_reconnection() overlaps invokes the
\* connect closure k times and returns Ok when the k-th invocation is the first
\* to succeed (k <= max_attempts), and max_attempts times, returning
\* AttemptsExhausted, when none of them succeeds; never more on the way.
C4_AttemptCount ==
    cancel_seen = "no" =>
        /\ connects <= ExpectedConnects
        /\ rpc = "done" =>
              /\ connects = ExpectedConnects
              /\ rresult = IF strategy.succeed_at \in 1..strategy.max_attempts
                           THEN "Ok" ELSE "AttemptsExhausted"

\* A call with three attempts allowed returned Ok after its second attempt.
C4_Witness ==
    /\ rpc = "done" /\ cancel_seen = "no"
    /\ strategy.max_attempts = 3 /\ strategy.succeed_at = 2
    /\ connects = 2 /\ rresult = "Ok"

\* A call returned AttemptsExhausted after all of its three attempts failed.
C4_WitnessExhausted ==
    /\ rpc = "done" /\ cancel_seen = "no"
    /\ strategy.max_attempts = 3 /\ strategy.succeed_at = 0
    /\ connects = 3 /\ rresult = "AttemptsExhausted"

\* The cells of the transition table that are marked illegal (from, to)
TableIllegal ==
    {<<"Disconnected", "Connected">>, <<"Disconnected", "Reconnecting">>,
     <<"Connecting", "Reconnecting">>,
     <<"Connected", "Connecting">>,
     <<"Reconnecting", "Connecting">>,
     <<"Failed", "Connected">>, <<"Failed", "Reconnecting">>}

\* C5: try_transition(to) in a state `from` whose pair the table marks illegal
\* returns InvalidTransition{from, to}, keeps the state and broadcasts nothing
\* (no event is sent and none is left to send).
C5_IllegalRejected ==
    [][\A t \in Tasks, to \in ConnectionState :
          (TryTransition(t, to) /\ <<sm_state.kind, to.kind>> \in TableIllegal)
              => /\ lastCall' = Returned("try_transition", sm_state, to,
                                         "Err(InvalidTransition)")
                 /\ sm_state' = sm_state
                 /\ events' = events
                 /\ tpc' = tpc]_vars

\* try_transition(Connecting) was refused in state Connected, after two events.
C5_Witness ==
    /\ lastCall = Returned("try_transition", Connected, Connecting,
                           "Err(InvalidTransition)")
    /\ sm_state = Connected
    /\ Len(events) = 2

\* C6: try_transition(to) in a state `from` # `to` whose pair the table does not
\* mark illegal makes `to` the current state, then sends the one event
\* {old_state = from, new_state = to} and returns Ok(true).
C6_LegalAccepted ==
    [][/\ \A t \in Tasks, to \in ConnectionState :
            (/\ TryTransition(t, to)
             /\ <<sm_state.kind, to.kind>> \notin TableIllegal
             /\ to # sm_state)
                => /\ sm_state' = to
                   /\ tpc'[t] = "send_try"
                   /\ pending'[t] = StateChangeEvent(sm_state, to)
                   /\ events' = events
       /\ \A t \in Tasks :
            (Send(t) /\ tpc[t] = "send_try")
                => /\ events' = Append(events, pending[t])
                   /\ tpc'[t] = "idle"
                   /\ lastCall' = Returned("try_transition", pending[t].old_state,
                                           pending[t].new_state, "Ok(true)")]_vars

\* try_transition(Reconnecting{1}) returned Ok(true) in state Connected and its
\* event is the last one broadcast.
C6_Witness ==
    /\ lastCall = Returned("try_transition", Connected, Reconnecting(1), "Ok(true)")
    /\ Len(events) = 2
    /\ events[2] = StateChangeEvent(Connected, Reconnecting(1))
    /\ sm_state = Reconnecting(1)

\* C7: whatever the interleaving of the calling tasks, the events a subscriber
\* receives are chained: each event's old_state is the new_state of the event
\* received just before it.
C7_EventsChained ==
    \A i \in 2..Len(events) : events[i].old_state = events[i - 1].new_state

\* C1: a message whose counter has been accepted (decrypt returned Ok for it) is
\* rejected with AuthenticationFailed whenever it is presented again, whatever
\* was decrypted in between.
C1_ReplayRejected ==
    (lastDecrypt.called /\ lastDecrypt.replayed)
        => lastDecrypt.result = "AuthenticationFailed"

\* A replay was presented after the window had moved on to a higher counter.
C1_Witness ==
    /\ lastDecrypt.called /\ lastDecrypt.replayed /\ lastDecrypt.genuine
    /\ lastDecrypt.result = "AuthenticationFailed"
    /\ replay_window.highest_seen > lastDecrypt.counter
    /\ Cardinality(accepted) >= 3

\* C2: while only the peer's own messages with counters below 64 (N <= 64
\* messages of a fresh sender) have been presented, in any order, a message is
\* accepted exactly when it is presented for the first time.
C2_OutOfOrderOnce ==
    (/\ lastDecrypt.called
     /\ onlyGenuine
     /\ replay_window.highest_seen < REPLAY_WINDOW_SIZE)
        => (lastDecrypt.result = "Ok" <=> ~lastDecrypt.replayed)

\* Counter 0 was accepted after counter 63, the far edge of the window.
C2_Witness ==
    /\ lastDecrypt.called /\ onlyGenuine
    /\ replay_window.highest_seen = REPLAY_WINDOW_SIZE - 1
    /\ lastDecrypt.counter = 0
    /\ lastDecrypt.result = "Ok"
    /\ Cardinality(accepted) >= 3

\* Both nodes hold an entry for the same path with different metadata.
Conflict(p) ==
  /\ sync["n1"].files[p] # NoFile
  /\ sync["n2"].files[p] # NoFile
  /\ sync["n1"].files[p] # sync["n2"].files[p]

\* The files map of merge(self, other): merge computes it from the two files
\* maps alone.
MergedFiles(self, other) == MergeFiles(self.files, other.files)

\* C8: merge is commutative on files: for the sync states A and B of the two
\* nodes, whatever their versions and modification times, merging B into A
\* and merging A into B yield the same files map.
C8_MergeCommutative ==
  MergedFiles(sync["n1"], sync["n2"]) = MergedFiles(sync["n2"], sync["n1"])

\* C9: merge is idempotent on files: merging a sync state with an identical
\* copy of itself leaves its files map unchanged.
C9_MergeIdempotent ==
  \A n \in Nodes : MergedFiles(sync[n], sync[n]) = sync[n].files

\* A node that has merged holds a file, so that merging it with its copy
\* compares every entry with an equal one.
C9_Witness ==
  /\ lastSync = "merge"
  /\ \E n \in Nodes : sync[n].files["p1"] # NoFile

\* merge(merge(x, y), z) and merge(x, merge(y, z)) have the same files map.
Associative(x, y, z) ==
  LET xy == MergeFiles(x.files, y.files)
      yz == MergeFiles(y.files, z.files)
  IN  MergeFiles(xy, z.files) = MergeFiles(x.files, yz)

\* The states of a third node: new, or after one local Create.
ThirdStates == ArbSyncStates("n3", MaxTime)

\* C10: merge is associative on files: for the sync states of the two nodes
\* and any state C of a third node, placed first, second or third,
\* merge(merge(A, B), C) and merge(A, merge(B, C)) have the same files map.
C10_MergeAssociative ==
  LET a == sync["n1"]
      b == sync["n2"]
  IN  \A c \in ThirdStates :
        /\ Associative(a, b, c)
        /\ Associative(a, c, b)
        /\ Associative(c, a, b)

\* After a merge the two nodes still hold conflicting entries of equal
\* version and modification time for a path: the three-way merges with the
\* states of the third node include ties on both.
C10_Witness ==
  /\ lastSync = "merge"
  /\ Conflict("p1")
  /\ sync["n1"].files["p1"].version = sync["n2"].files["p1"].version
  /\ sync["n1"].files["p1"].modified = sync["n2"].files["p1"].modified

\* The files map obtained by replaying an operations log, in log order, on
\* an empty state with apply_operation.
RECURSIVE ReplayLog(_, _)
ReplayLog(state, ops) ==
  IF ops = <<>>
    THEN state
    ELSE ReplayLog(apply_operation(state, Head(ops)), Tail(ops))

\* C11: after any sequence of apply_local, apply_remote and merge calls on a
\* sync state, its files map equals the result of replaying its operations
\* log, in log order, under the LWW operation semantics.
C11_FilesAreFoldOfLog ==
  \A n \in Nodes :
    ReplayLog(SyncStateNew(n), sync[n].operations).files = sync[n].files

\* C12: after any sequence of add_data calls with arbitrary positions and
\* lengths, interleaved with any reads and seeks, buffered_bytes() is at most
\* max_buffer_size at every observation.
C12_BufferBound == buffer.total_buffered <= BufferConfig.max_buffer_size

\* C13: on one channel every encrypt call takes a distinct send counter: the
\* counters handed out are 0, 1, 2, ... in increasing order with no value
\* used twice, also when encrypt is called concurrently from several tasks.
C13_DistinctCounters ==
  /\ \A i \in 1..Len(issued) : issued[i] = i - 1
  /\ \A t, u \in EncryptTasks :
       (t # u /\ epc[t] = "sealing" /\ epc[u] = "sealing") => taken[t] # taken[u]

\* Three tasks are inside encrypt at once, each between its fetch_add and its
\* return.
C13_Witness ==
  /\ \A t \in EncryptTasks : epc[t] = "sealing"
  /\ Len(issued) >= 3

\* Builders x and y form a handshake pair: each established its channel from
\* the handshake message of the other.
Partner(x, y) ==
  /\ bst[x] = "done"
  /\ bst[y] = "done"
  /\ chan[x].role # chan[y].role
  /\ chan[x].peer_identity = LocalIdentity(y)
  /\ chan[y].peer_identity = LocalIdentity(x)

\* C14: a SecureMessage produced on a channel of one handshake pair is never
\* successfully decrypted by a channel that is not its partner in that pair.
C14_CrossChannelIsolation ==
  lastHs.result = "Ok" => Partner(lastHs.from, lastHs.on)

\* Two handshake pairs are established and a channel of one has just been
\* handed a message of the other.
C14_Witness ==
  /\ Partner("a", "b")
  /\ Partner("c", "d")
  /\ lastHs.on \in {"c", "d"}
  /\ lastHs.from \in {"a", "b"}
  /\ lastHs.result # "Ok"

\* C15: after an Init/Response handshake completed by both sides, the
\* initiator's encryption key equals the responder's decryption key and the
\* responder's encryption key equals the initiator's decryption key, so a
\* message encrypted by either side, sent or about to be, decrypts on the
\* other side.
C15_KeysPaired ==
  \A x \in Initiators, y \in Responders :
    Partner(x, y) =>
      /\ chan[x].encrypt_key = chan[y].decrypt_key
      /\ chan[y].encrypt_key = chan[x].decrypt_key
      /\ channel_decrypt(chan[y], channel_encrypt(x, chan[x])).result = "Ok"
      /\ channel_decrypt(chan[x], channel_encrypt(y, chan[y])).result = "Ok"
      /\ \A m \in wire :
           /\ m.from = x => cipher_decrypt(chan[y].decrypt_key, m) = "Ok"
           /\ m.from = y => cipher_decrypt(chan[x].decrypt_key, m) = "Ok"
      /\ (lastHs.from = x /\ lastHs.on = y) =>
           lastHs.result \in {"Ok", "AuthenticationFailed"}
      /\ (lastHs.from = y /\ lastHs.on = x) =>
           lastHs.result \in {"Ok", "AuthenticationFailed"}

\* Both sides of a completed handshake have sent a message and the
\* initiator has just decrypted the responder's.
C15_Witness ==
  /\ Partner("a", "b")
  /\ \E m \in wire : m.from = "a"
  /\ lastHs = [on |-> "a", from |-> "b", result |-> "Ok"]

\* C16: a cryptographic authentication failure terminates the channel: the
\* decrypt call that follows one that failed authentication (a rejected
\* sender or counter, or a failed AEAD open) does not succeed.
C16_AuthFailureTerminates ==
  [][(/\ lastDecrypt.called
      /\ lastDecrypt.result \in {"AuthenticationFailed", "Decryption"})
       => lastDecrypt'.result # "Ok"]_vars

\* C17: decrypt rejects with AuthenticationFailed every message whose sender
\* identifier is not the peer's, whatever its counter, key and integrity (so
\* also a message sealed by this channel itself, whose sender is the local
\* identifier), and that call leaves the replay window as it was.
C17_WrongSenderRejected ==
  [][\A m \in SecureMessage :
        (Decrypt(m) /\ m.sender # PeerIdentifier)
            => /\ lastDecrypt'.result = "AuthenticationFailed"
               /\ replay_window' = replay_window]_vars

\* a message carrying the local identifier was rejected on a channel that had
\* already accepted messages, with a counter the window would have taken
C17_Witness ==
    /\ lastDecrypt.called
    /\ lastDecrypt.sender = "local"
    /\ lastDecrypt.result = "AuthenticationFailed"
    /\ accepted # {}
    /\ lastDecrypt.counter > replay_window.highest_seen

\* Metadata a has the greater (version, modified) pair: versions first, the
\* modification times when the versions are equal.
Greater(a, b) ==
  \/ a.version > b.version
  \/ a.version = b.version /\ a.modified > b.modified

\* C18: when the sync states of two nodes both hold metadata for a path, the
\* files map of the merge, in either direction, holds for that path one of
\* the two entries and neither entry has a greater (version, modified) pair
\* than it: the entry with the strictly greater pair wins both ways.
C18_LwwGreaterWins ==
  \A n \in Nodes, m \in Nodes, p \in Paths :
    LET a == sync[n].files[p]
        b == sync[m].files[p]
        merged == MergedFiles(sync[n], sync[m])[p]
    IN  (a # NoFile /\ b # NoFile) =>
          /\ merged \in {a, b}
          /\ ~Greater(a, merged)
          /\ ~Greater(b, merged)

\* After a merge the two nodes hold different entries for "p1"; the one with
\* the greater version has the smaller modification time.
C18_Witness ==
  /\ lastSync = "merge"
  /\ Conflict("p1")
  /\ sync["n1"].files["p1"].version < sync["n2"].files["p1"].version
  /\ sync["n1"].files["p1"].modified > sync["n2"].files["p1"].modified

\* C19: every path present in the files map of either of two sync states is
\* present in the files map of their merge, in either direction.
C19_MergeKeepsPaths ==
  \A n \in Nodes, m \in Nodes, p \in Paths :
    (sync[n].files[p] # NoFile \/ sync[m].files[p] # NoFile)
      => MergedFiles(sync[n], sync[m])[p] # NoFile

\* Each node holds a path the other lacks: one renamed its file.
C19_Witness ==
  /\ sync["n1"].files["p1"] = NoFile
  /\ sync["n1"].files["p2"] # NoFile
  /\ sync["n2"].files["p1"] # NoFile
  /\ sync["n2"].files["p2"] = NoFile

\* The operation that the apply_remote call of a step appended to the log.
Applied(n) == sync[n].operations[Len(sync[n].operations)]'

\* C20: a node's logical clock strictly increases on every apply_local,
\* apply_remote and merge that returns; after apply_remote of an operation
\* with clock c, and after merge of a state whose clock is c, the clock is
\* greater than c and equals the greater of the previous clock and c, plus 1.
C20_ClockAdvances ==
  [][\A n \in Nodes :
       /\ (/\ lastSync' \in {"apply_local", "apply_remote", "merge"}
           /\ sync'[n] # sync[n])
             => sync'[n].clock > sync[n].clock
       /\ (lastSync' = "apply_remote" /\ sync'[n] # sync[n])
             => /\ sync'[n].clock > Applied(n).clock
                /\ sync'[n].clock =
                     (IF sync[n].clock > Applied(n).clock
                        THEN sync[n].clock ELSE Applied(n).clock) + 1
       /\ \A m \in Nodes :
            Merge(n, m)
              => /\ sync'[n].clock > sync[m].clock
                 /\ sync'[n].clock =
                      (IF sync[n].clock > sync[m].clock
                         THEN sync[n].clock ELSE sync[m].clock) + 1]_vars

\* The highest counter of a message that decrypt has accepted.
HighestAccepted == CHOOSE c \in accepted : \A d \in accepted : d <= c

\* C30: a message whose counter is REPLAY_WINDOW_SIZE or more below the
\* highest counter accepted so far is rejected with AuthenticationFailed,
\* whether or not a message with that counter was seen before, and the call
\* leaves the replay window as it was.
C30_TooOldRejected ==
  [][\A m \in SecureMessage :
        (/\ Decrypt(m)
         /\ accepted # {}
         /\ m.counter + REPLAY_WINDOW_SIZE <= HighestAccepted)
            => /\ lastDecrypt'.result = "AuthenticationFailed"
               /\ replay_window' = replay_window]_vars

\* the peer's genuine message, with a counter never accepted before and
\* exactly REPLAY_WINDOW_SIZE below the highest accepted one, was rejected
C30_Witness ==
    /\ lastDecrypt.called /\ lastDecrypt.genuine /\ ~lastDecrypt.replayed
    /\ lastDecrypt.result = "AuthenticationFailed"
    /\ accepted # {}
    /\ lastDecrypt.counter + REPLAY_WINDOW_SIZE = HighestAccepted

\* The last call was add_data(0, bytes) on a buffer that held no range and
\* had its cursor at 0: the buffer holds what that call stored, and nothing
\* else.
AddedToEmpty ==
  /\ lastBuf.op = "add_data"
  /\ lastBuf.arg = 0
  /\ buffer.read_position = 0
  /\ \A k \in Positions \ {0} : buffer.ranges[k] = <<>>
  /\ lastBuf.data = <<>> => buffer.ranges[0] = <<>>

\* Every read advances the cursor by the number of bytes it returns (none
\* when it returns None).
CursorAdvances ==
  \A len \in 0..MaxLen :
    Read(len) =>
      buffer'.read_position = buffer.read_position + Len(lastBuf'.data)

\* C24 as stated: add_data(0, bytes) on an empty buffer followed by
\* read(|bytes|) returns exactly bytes, for any bytes, and every read
\* advances the cursor by exactly the number of bytes it returns.
C24_ReadReturnsBytes ==
  [][/\ (AddedToEmpty /\ Read(Len(lastBuf.data)))
          => (lastBuf'.found /\ lastBuf'.data = lastBuf.data)
     /\ CursorAdvances]_vars

\* C24, amended: add_data(0, bytes) on an empty buffer, with bytes not empty
\* and not longer than max_buffer_size, followed by read(|bytes|) returns
\* exactly bytes; every read advances the cursor by exactly the number of
\* bytes it returns.
C24_ReadReturnsBytesWithinMax ==
  [][/\ (/\ AddedToEmpty
         /\ lastBuf.data # <<>>
         /\ Len(lastBuf.data) <= BufferConfig.max_buffer_size
         /\ Read(Len(lastBuf.data)))
          => (lastBuf'.found /\ lastBuf'.data = lastBuf.data)
     /\ CursorAdvances]_vars

\* A read of max_buffer_size bytes at cursor 0 returned the whole of the
\* only range, stored at 0, and left the cursor at its end.
C24_Witness ==
  /\ lastBuf.op = "read" /\ lastBuf.found
  /\ lastBuf.arg = BufferConfig.max_buffer_size
  /\ lastBuf.data = buffer.ranges[0]
  /\ Len(lastBuf.data) = BufferConfig.max_buffer_size
  /\ buffer.read_position = BufferConfig.max_buffer_size
  /\ \A k \in Positions \ {0} : buffer.ranges[k] = <<>>

\* C25: seek(position) with a position beyond the known stream size returns
\* false and leaves the cursor where it was; in every other case (no known
\* size, or a position up to it) the cursor becomes position and seek returns
\* true exactly when some buffered range holds position.
C25_SeekContract ==
  [][\A position \in 0..(MaxPos + 1) :
       Seek(position) =>
         IF buffer.stream_size # NoSize /\ position > buffer.stream_size
           THEN /\ ~lastBuf'.found
                /\ buffer'.read_position = buffer.read_position
           ELSE /\ buffer'.read_position = position
                /\ lastBuf'.found <=>
                     \E k \in Positions :
                       /\ buffer.ranges[k] # <<>>
                       /\ k <= position
                       /\ position < k + Len(buffer.ranges[k])]_vars

\* A seek beyond the known stream size was refused on a buffer that holds
\* data, with the cursor elsewhere.
C25_Witness ==
  /\ lastBuf.op = "seek" /\ ~lastBuf.found
  /\ buffer.stream_size # NoSize
  /\ lastBuf.arg > buffer.stream_size
  /\ buffer.read_position # lastBuf.arg
  /\ buffer.total_buffered > 0

\* min(base_delay * 2^k, max_delay), computed without the product when it
\* exceeds max_delay.
ExpectedDelay(s, k) ==
  IF s.base_delay <= s.max_delay \div (2 ^ k)
    THEN s.base_delay * (2 ^ k) ELSE s.max_delay

\* The delay of attempt n with jitter disabled.
Delay(n) == delay_for_attempt(backoff, n, 0)

\* C26: with jitter disabled, for every attempt number n,
\* delay_for_attempt(n) equals min(base_delay * 2^min(n,10), max_delay), is
\* at most delay_for_attempt(n + 1) and at most max_delay, and for n = 0 it
\* equals min(base_delay, max_delay); a call returns that value.
C26_BackoffDelay ==
  ~backoff.jitter =>
    /\ \A n \in 0..MaxAttemptArg :
         /\ Delay(n) = ExpectedDelay(backoff, IF n < 10 THEN n ELSE 10)
         /\ Delay(n) <= Delay(n + 1)
         /\ Delay(n) <= backoff.max_delay
    /\ Delay(0) = (IF backoff.base_delay < backoff.max_delay
                     THEN backoff.base_delay ELSE backoff.max_delay)
    /\ lastDelay.called => lastDelay.delay = Delay(lastDelay.attempt)

\* Without jitter, a call for an attempt beyond the tenth returned 1024 times
\* the base delay, below max_delay: the exponent was capped, the delay not.
C26_Witness ==
  /\ ~backoff.jitter
  /\ lastDelay.called /\ lastDelay.attempt > 10
  /\ backoff.base_delay \in 1..MaxDuration
  /\ lastDelay.delay = 1024 * backoff.base_delay
  /\ lastDelay.delay < backoff.max_delay

\* C27: a publisher never waits for subscribers: the send that ends a
\* set_state or try_transition call can complete in every state, also when
\* a subscriber has STATE_CHANNEL_CAPACITY or more unconsumed events; the
\* subscriber that is behind by more than the capacity then loses its oldest
\* events (its receiver continues at the oldest event kept), and a
\* subscriber that is not behind by more than the capacity loses none.
C27_PublishersNeverWait ==
  /\ \A t \in Tasks : bc_pc[t] = "send" => ENABLED SendEvent(t)
  /\ \A s \in Subscribers :
       /\ rx_next[s] + STATE_CHANNEL_CAPACITY < bc_sent => ENABLED Recv(s)
       /\ rx_lost[s] <= rx_next[s]
       /\ rx_lost[s] > 0 => bc_sent > STATE_CHANNEL_CAPACITY

\* More events were sent than the channel keeps; one subscriber lost the
\* oldest of them and the other received every event.
C27_Witness ==
  /\ bc_sent > STATE_CHANNEL_CAPACITY
  /\ \A t \in Tasks : bc_pc[t] = "idle"
  /\ rx_lost["s1"] > 0
  /\ rx_lost["s2"] = 0 /\ rx_next["s2"] = bc_sent

\* contains(id) on a set of chunks
Contains(chunks, id) == \E c \in chunks : c.id = id

\* C21: after garbage_collect(L), for every chunk id that was in the store
\* before the call, contains(id) holds if and only if id is in L.
C21_GcKeepsReferenced ==
  [][\A L \in SUBSET {c.id : c \in StoreInputs} :
       GarbageCollect(L) =>
         \A c \in cs : Contains(cs', c.id) <=> c.id \in L]_vars

\* A garbage collection removed a chunk and kept another.
C21_Witness ==
  /\ lastCs.op = "garbage_collect"
  /\ lastCs.removed > 0
  /\ cs # {}

\* C22: every store of a chunk, by any task in any interleaving, returns the
\* chunk's id (the hash of the content for a chunk made by Chunk::new) and
\* leaves exactly one entry with that id; when an entry with that id was
\* already there, the store is left as it was.
C22_StoreDeduplicates ==
  [][\A t \in Tasks :
       StoreInsert(t) =>
         /\ lastCs'.id = cs_arg[t].id
         /\ cs_arg[t] = ChunkNew(cs_arg[t].data)
               => lastCs'.id = HashData(cs_arg[t].data)
         /\ Cardinality({c \in cs' : c.id = cs_arg[t].id}) = 1
         /\ Contains(cs, cs_arg[t].id) => cs' = cs]_vars

\* A store of a chunk whose id was already held, with other data, returned
\* while the other task was in a store of its own.
C22_Witness ==
  /\ lastCs.op = "store"
  /\ \E c \in cs : c.id = lastCs.id /\ c.id # HashData(c.data)
  /\ \E t \in Tasks :
       /\ cs_pc[t] = "idle"
       /\ cs_arg[t] = ChunkNew(cs_arg[t].data) /\ cs_arg[t].id = lastCs.id
  /\ \E t \in Tasks : cs_pc[t] = "store"

\* C23: after any sequence of write, mkdir and delete calls on a VirtualFs,
\* read(p) for every path p that holds a file returns Ok with exactly the
\* bytes of the latest write to p.
C23_ReadReturnsLatestWrite ==
  \A p \in Paths :
    vfs_files[p].file_type = "File" =>
      vfs_read(vfs_chunks, vfs_files, p)
        = [result |-> "Ok", data |-> vfs_written[p]]

\* C28: change_source on a session that is not the host returns an error,
\* leaves the room's source and playback state unchanged and emits no event;
\* on the host it replaces the source, resets playback to the default state
\* and emits SourceChanged.
C28_ChangeSourceHostOnly ==
  [][\A source \in StreamSources :
       ChangeSource(source) =>
         IF ~session.is_host
           THEN /\ lastStream'.result = "Err"
                /\ session'.room = session.room
                /\ session'.event_tx = session.event_tx
           ELSE /\ session'.room.source = source
                /\ session'.room.playback = PlaybackState_default(wall_ms)
                /\ session'.event_tx =
                     Append(session.event_tx,
                            [type |-> "SourceChanged", source |-> source])
    ]_vars

\* a joined session whose room is playing was refused a change of source
C28_Witness ==
  /\ lastStream = [op |-> "change_source", result |-> "Err"]
  /\ ~session.is_host
  /\ session.room.playback.playing

\* C29: pause() freezes the expected position: a pause() called while the room
\* is playing leaves expected_position() at the value it had reached, and it
\* stays at that value while the room is paused and time passes.
C29_PauseFreezesExpectedPosition ==
  [][(\/ StreamPause /\ session.room.playback.playing
      \/ ~session.room.playback.playing /\ \E d \in TickSteps : StreamTick(d))
       => expected_position(session', wall_ms')
            = expected_position(session, wall_ms)
    ]_vars

\* C31: setting the state to a value equal to the current state is a no-op:
\* set_state returns false and try_transition returns Ok(false), the state is
\* unchanged, and no event is broadcast or left to be sent.
C31_SameStateIsNoop ==
  [][\A t \in Tasks, new_state \in ConnectionState :
       (tpc[t] = "idle" /\ sm_state = new_state) =>
         /\ SetState(t, new_state) =>
              /\ lastCall' = Returned("set_state", sm_state, new_state, "false")
              /\ UNCHANGED <<sm_state, events, tpc, pending>>
         /\ TryTransition(t, new_state) =>
              /\ lastCall'
                   = Returned("try_transition", sm_state, new_state, "Ok(false)")
              /\ UNCHANGED <<sm_state, events, tpc, pending>>
    ]_vars

\* set_state(Connected) returned false on a manager that had broadcast events
C31_Witness ==
  /\ lastCall = Returned("set_state", Connected, Connected, "false")
  /\ sm_state = Connected
  /\ Len(events) > 0

\* C32: applying Update{p, m} when files[p] already exists replaces the stored
\* metadata if and only if m.version > existing.version, or m.version =
\* existing.version and m.modified > existing.modified; otherwise files[p] is
\* left exactly as it was.
C32_UpdateLastWriterWins ==
  [][\A n \in Nodes, m \in FileMetadata :
       (ApplyLocalBuilt(n, Update(m.path, m)) /\ sync[n].files[m.path] # NoFile)
         => LET existing == sync[n].files[m.path]
            IN  sync'[n].files[m.path] =
                  IF \/ m.version > existing.version
                     \/ /\ m.version = existing.version
                        /\ m.modified > existing.modified
                    THEN m
                    ELSE existing
    ]_vars

\* C33: status() reports the outcome of the most recent reconnect call: Idle
\* before any call, InProgress{attempt, max_attempts} while the call runs,
\* Succeeded after it returned Ok, Failed after it exhausted its attempts, and
\* Cancelled after it was cancelled.
C33_StatusReportsOutcome ==
  /\ (rpc = "idle" /\ ~cancelled) => status = StatusIdle
  /\ (rpc \in {"select", "sleeping", "connect", "connecting"} /\ ~cancelled)
       => status = StatusInProgress(attempt + 1, strategy.max_attempts)
  /\ (rpc = "done" /\ rresult = "Ok" /\ ~cancelled)
       => status.kind = "Succeeded"
  /\ (rpc = "done" /\ rresult = "AttemptsExhausted" /\ ~cancelled)
       => status.kind = "Failed"
  /\ (rpc = "done" /\ rresult = "Cancelled") => status = StatusCancelled

\* C34: a message that carries the peer's sender identifier but fails AEAD
\* decryption (forged or corrupted) leaves the replay window unchanged, so a
\* genuine message whose counter lies within the window and was not accepted
\* before is still accepted afterwards.
C34_FailedDecryptKeepsWindow ==
  [][\A m \in SecureMessage :
       (/\ Decrypt(m)
        /\ m.sender = PeerIdentifier
        /\ cipher_decrypt(DecryptKey, m) # "Ok")
         => /\ replay_window' = replay_window
            /\ \A g \in SecureMessage :
                 (Genuine(g) /\ decrypt(replay_window, g).result = "Ok")
                   => decrypt(replay_window', g).result = "Ok"
    ]_vars

\* the sum of the lengths of the ranges held under `keys`
RECURSIVE HeldBytes(_, _)
HeldBytes(rs, keys) ==
  IF keys = {}
    THEN 0
    ELSE LET k == FirstKey(keys)
         IN  Len(rs[k]) + HeldBytes(rs, keys \ {k})

\* C35: at every point buffered_bytes() equals the sum of the lengths of the
\* ranges the buffer holds, after any sequence of add_data (at any position,
\* including one that already holds a range), read, seek and clear.
C35_BufferedBytesIsSumOfRanges ==
  buffer.total_buffered = HeldBytes(buffer.ranges, RangeKeys(buffer.ranges))

RoomView(self) ==
  [playing |-> self.room.playback.playing,
   position |-> self.room.playback.position,
   speed |-> self.room.playback.speed,
   source |-> self.room.source,
   peers |-> self.room.peers]

\* C37: handle_event is idempotent on the room state: applying the same
\* incoming event twice, at once or some time apart, leaves the room's playback flag,
\* position, speed, source and peer list the same as applying it once.
C37_HandleEventIdempotent ==
  \A event \in SyncEvent, later \in {0} \cup TickSteps :
    LET once == handle_event(session, event, wall_ms).self
        twice == handle_event(once, event, wall_ms + later).self
    IN  RoomView(twice) = RoomView(once)

\* The session handled PeerJoined{peer_1} twice in a row and lists the peer
\* once.
C37_Witness ==
  /\ lastStream.op = "handle_event"
  /\ Len(session.event_tx) >= 2
  /\ session.event_tx[Len(session.event_tx)]
       = [type |-> "PeerJoined", peer_id |-> "peer_1"]
  /\ session.event_tx[Len(session.event_tx) - 1]
       = [type |-> "PeerJoined", peer_id |-> "peer_1"]
  /\ session.room.peers = <<"peer_1">>

\* C38: in every established channel the recorded peer identity is the one
\* derived from the key actually used: peer_identity.identifier is the hash
\* of peer_identity.public_key, and peer_identity.public_key is the public
\* key the key agreement used, whatever handshake message the peer sent.
C38_PeerIdentityFromKeyUsed ==
  \A b \in Builders :
    bst[b] = "done" =>
      /\ chan[b].peer_identity.identifier
           = HashData(chan[b].peer_identity.public_key)
      /\ chan[b].encrypt_key.secret
           = agree(b, chan[b].peer_identity.public_key)

\* C39: whenever no reconnect call is in progress, is_reconnecting() is false
\* and current_attempt() is 0, whatever the outcome of the last call was
\* (success, attempts exhausted, or cancelled).
C39_NotReconnectingWhenIdle ==
  ~Running => (~is_reconnecting /\ current_attempt = 0)

\* Reconnecting{1}, ..., Reconnecting{n}
ReconnectingUpTo(n) == [i \in 1..n |-> Reconnecting(i)]

\* the state reconnect_with_strategy publishes last for the result `result`
FinalState(result) ==
  IF result = "Ok"
    THEN Connected
    ELSE Failed(ErrorReason(result, strategy.max_attempts))

====
